---- MODULE Spec2Model ----
(***************************************************************************)
(* Vibe Logger: the session telemetry pipeline.                            *)
(*   logger.js          Logger (sanitize, logEvent, logConsole,            *)
(*                      saveSnapshot, endSession)                          *)
(*   unnamed/part_002   orchestrator (nodeStartRecording,                  *)
(*                      nodeStopRecording, ingestion callbacks)            *)
(*   trace_cleaner.js   TraceCleaner.process                               *)
(*                                                                         *)
(* A JavaScript string is a sequence of one-character strings, so that     *)
(* toLowerCase, includes, substring and JSON.stringify are computed.       *)
(* A JSON value is a record tagged by t (the typeof / Array.isArray        *)
(* class): null, string, number, boolean, array (v: sequence of values),   *)
(* object (v: sequence of entries [k, v] in Object.entries order).         *)
(* Values reach the process through JSON (puppeteer bindings,              *)
(* response.json(), JSON.parse), so undefined does not occur in them.      *)
(***************************************************************************)
EXTENDS Integers, Sequences, FiniteSets, TLC

\* ------------------------------------------------------------------ bounds
MaxClock == 1
MaxTimeline == 1
MaxConsole == 1
MaxInflight == 1
MaxStopCalls == 2

\* ------------------------------------------------------- strings and JSON
UpperAlpha == <<"A", "B", "C", "D", "E", "F", "G", "H", "I", "J", "K", "L", "M", "N", "O", "P", "Q", "R", "S", "T", "U", "V", "W", "X", "Y", "Z">>
LowerAlpha == <<"a", "b", "c", "d", "e", "f", "g", "h", "i", "j", "k", "l", "m", "n", "o", "p", "q", "r", "s", "t", "u", "v", "w", "x", "y", "z">>

toLowerChar(c) ==
    IF \E i \in 1..Len(UpperAlpha) : UpperAlpha[i] = c
    THEN LowerAlpha[CHOOSE i \in 1..Len(UpperAlpha) : UpperAlpha[i] = c]
    ELSE c

toLowerCase(s) == [i \in 1..Len(s) |-> toLowerChar(s[i])]

includes(s, sub) ==
    \E i \in 0..(Len(s) - Len(sub)) : SubSeq(s, i + 1, i + Len(sub)) = sub

substring(s, from, to) == SubSeq(s, from + 1, IF to > Len(s) THEN Len(s) ELSE to)

JNull == [t |-> "null"]
JStr(s) == [t |-> "string", v |-> s]
JNum(n) == [t |-> "number", v |-> n]
JBool(b) == [t |-> "boolean", v |-> b]
JArr(items) == [t |-> "array", v |-> items]
JObj(entries) == [t |-> "object", v |-> entries]
Entry(key, val) == [k |-> key, v |-> val]

\* typeof value === 'object' (true of null, arrays and plain objects)
typeofObject(val) == val.t \in {"null", "array", "object"}

hasKey(obj, key) == \E i \in 1..Len(obj.v) : obj.v[i].k = key

\* obj[key]; used only where the key is present
getKey(obj, key) == obj.v[CHOOSE i \in 1..Len(obj.v) : obj.v[i].k = key].v

\* ------------------------------------------------------ logger.js: sanitize
SENSITIVE_KEYS ==
    << <<"p", "a", "s", "s", "w", "o", "r", "d">>, <<"t", "o", "k", "e", "n">>, <<"a", "u", "t", "h">>, <<"s", "e", "c", "r", "e", "t">>, <<"k", "e", "y">>, <<"c", "r", "e", "d", "e", "n", "t", "i", "a", "l">>,
       <<"a", "u", "t", "h", "o", "r", "i", "z", "a", "t", "i", "o", "n">>, <<"a", "p", "i", "k", "e", "y">>, <<"a", "p", "i", "_", "k", "e", "y">> >>

REDACTED == JStr(<<"*", "*", "*", "R", "E", "D", "A", "C", "T", "E", "D", "*", "*", "*">>)

isSensitive(key) ==
    LET lowerKey == toLowerCase(key)
    IN  \E i \in 1..Len(SENSITIVE_KEYS) : includes(lowerKey, SENSITIVE_KEYS[i])

RECURSIVE sanitize(_)

\* variant: nested values are copied without being sanitized
sanitizeEntryShallow(e) ==
    IF isSensitive(e.k) /\ e.v.t # "null" THEN Entry(e.k, REDACTED) ELSE e

\* variant: the mask of a string keeps its first character as a hint
sanitizeEntryHint(e) ==
    IF isSensitive(e.k) /\ e.v.t # "null"
    THEN IF e.v.t = "string" /\ e.v.v # <<>>
         THEN Entry(e.k, JStr(REDACTED.v \o <<e.v.v[1]>>))
         ELSE Entry(e.k, REDACTED)
    ELSE IF typeofObject(e.v) THEN Entry(e.k, sanitize(e.v))
    ELSE e

sanitizeEntry(e) ==
    IF isSensitive(e.k) /\ e.v.t # "null" THEN Entry(e.k, REDACTED)
    ELSE IF typeofObject(e.v) THEN Entry(e.k, sanitize(e.v))
    ELSE e

\* variant: arrays are returned as they are
sanitizeSkipsArrays(data) ==
    IF data.t = "object" THEN JObj([i \in 1..Len(data.v) |-> sanitizeEntry(data.v[i])])
    ELSE data

sanitize(data) ==
    IF data.t = "null" THEN data
    ELSE IF data.t = "string" THEN data
    ELSE IF data.t = "array" THEN JArr([i \in 1..Len(data.v) |-> sanitize(data.v[i])])
    ELSE IF data.t = "object" THEN JObj([i \in 1..Len(data.v) |-> sanitizeEntry(data.v[i])])
    ELSE data

\* ------------------------------------------------------------ JSON.stringify
Digits == <<"0", "1", "2", "3", "4", "5", "6", "7", "8", "9">>

RECURSIVE numberToString(_)
numberToString(n) ==
    IF n < 10 THEN <<Digits[n + 1]>>
    ELSE numberToString(n \div 10) \o <<Digits[(n % 10) + 1]>>

quoteChar(c) == IF c = "\"" \/ c = "\\" THEN <<"\\", c>> ELSE <<c>>

RECURSIVE quoteChars(_)
\* a string without '"' and '\' is its own escaped form
quoteChars(s) ==
    IF \A i \in 1..Len(s) : quoteChar(s[i]) = <<s[i]>> THEN s
    ELSE quoteChar(Head(s)) \o quoteChars(Tail(s))

quote(s) == <<"\"">> \o quoteChars(s) \o <<"\"">>

RECURSIVE stringify(_)
RECURSIVE stringifyItems(_)
RECURSIVE stringifyEntries(_)

stringifyItems(items) ==
    IF items = <<>> THEN <<>>
    ELSE stringify(Head(items))
         \o (IF Len(items) > 1 THEN <<",">> ELSE <<>>)
         \o stringifyItems(Tail(items))

stringifyEntries(entries) ==
    IF entries = <<>> THEN <<>>
    ELSE quote(Head(entries).k) \o <<":">> \o stringify(Head(entries).v)
         \o (IF Len(entries) > 1 THEN <<",">> ELSE <<>>)
         \o stringifyEntries(Tail(entries))

stringify(val) ==
    CASE val.t = "null" -> <<"n", "u", "l", "l">>
      [] val.t = "string" -> quote(val.v)
      [] val.t = "number" -> numberToString(val.v)
      [] val.t = "boolean" -> IF val.v THEN <<"t", "r", "u", "e">> ELSE <<"f", "a", "l", "s", "e">>
      [] val.t = "array" -> <<"[">> \o stringifyItems(val.v) \o <<"]">>
      [] val.t = "object" -> <<"{">> \o stringifyEntries(val.v) \o <<"}">>

\* ---------------------------------------- part_002: smart filter configuration
URL_BLOCKLIST ==
    << <<"g", "o", "o", "g", "l", "e", "-", "a", "n", "a", "l", "y", "t", "i", "c", "s">>, <<"g", "o", "o", "g", "l", "e", "t", "a", "g", "m", "a", "n", "a", "g", "e", "r">>, <<"d", "o", "u", "b", "l", "e", "c", "l", "i", "c", "k">>, <<"f", "a", "c", "e", "b", "o", "o", "k">>,
       <<"f", "b", "c", "d", "n">>, <<"m", "e", "t", "r", "i", "c", "s">>, <<"t", "e", "l", "e", "m", "e", "t", "r", "y">>, <<"g", "e", "n", "_", "2", "0", "4">>, <<"p", "i", "n", "g">>, <<"b", "e", "a", "c", "o", "n">>,
       <<"c", "o", "l", "l", "e", "c", "t">>, <<"a", "n", "a", "l", "y", "t", "i", "c", "s">>, <<"t", "r", "a", "c", "k", "i", "n", "g">>, <<"h", "o", "t", "j", "a", "r">>, <<"c", "l", "a", "r", "i", "t", "y">>,
       <<"s", "e", "g", "m", "e", "n", "t">>, <<"m", "i", "x", "p", "a", "n", "e", "l">>, <<"a", "m", "p", "l", "i", "t", "u", "d", "e">>, <<"s", "e", "n", "t", "r", "y">>, <<"b", "u", "g", "s", "n", "a", "g">>,
       <<"n", "e", "w", "r", "e", "l", "i", "c">>, <<"d", "a", "t", "a", "d", "o", "g", "h", "q">> >>

IGNORED_RESOURCE_TYPES == {"image", "font", "media", "stylesheet"}

IGNORED_EXTENSIONS ==
    { <<".", "p", "n", "g">>, <<".", "j", "p", "g">>, <<".", "j", "p", "e", "g">>, <<".", "g", "i", "f">>, <<".", "w", "e", "b", "p">>, <<".", "s", "v", "g">>, <<".", "i", "c", "o">>,
      <<".", "w", "o", "f", "f">>, <<".", "w", "o", "f", "f", "2">>, <<".", "t", "t", "f">>, <<".", "e", "o", "t">>, <<".", "m", "p", "4">>, <<".", "m", "p", "3">>, <<".", "w", "a", "v">>,
      <<".", "w", "e", "b", "m">>, <<".", "c", "s", "s">> }

MAX_RESPONSE_SNIPPET == 1024

shouldIgnoreUrl(url) ==
    LET lowerUrl == toLowerCase(url)
    IN  \E i \in 1..Len(URL_BLOCKLIST) : includes(lowerUrl, URL_BLOCKLIST[i])

shouldIgnoreResourceType(resourceType) == resourceType \in IGNORED_RESOURCE_TYPES

\* last index of character c in s, 0 when absent
lastIndexOf(s, c) ==
    IF \E i \in 1..Len(s) : s[i] = c
    THEN CHOOSE i \in 1..Len(s) : s[i] = c /\ \A j \in (i + 1)..Len(s) : s[j] # c
    ELSE 0

\* first index of character c in s, Len(s) + 1 when absent
firstIndexOf(s, c) ==
    IF \E i \in 1..Len(s) : s[i] = c
    THEN CHOOSE i \in 1..Len(s) : s[i] = c /\ \A j \in 1..(i - 1) : s[j] # c
    ELSE Len(s) + 1

\* path.extname: from the last '.' of the last path segment to the end,
\* empty when that segment has no '.' or only a leading one
extname(p) ==
    LET base == SubSeq(p, lastIndexOf(p, "/") + 1, Len(p))
        dot == lastIndexOf(base, ".")
    IN  IF dot <= 1 THEN <<>> ELSE SubSeq(base, dot, Len(base))

shouldIgnoreExtension(url) ==
    LET lowered == toLowerCase(extname(url))
        ext == SubSeq(lowered, 1, firstIndexOf(lowered, "?") - 1)
    IN  ext \in IGNORED_EXTENSIONS

\* !value
falsy(val) ==
    \/ val.t = "null"
    \/ val.t = "string" /\ val.v = <<>>
    \/ val.t = "number" /\ val.v = 0
    \/ val.t = "boolean" /\ ~val.v

getResponseSnippet(response) ==
    IF falsy(response) THEN JNull
    ELSE LET text == IF response.t = "string" THEN response.v ELSE stringify(response)
         IN  IF Len(text) <= MAX_RESPONSE_SNIPPET THEN JStr(text)
             ELSE JStr(substring(text, 0, MAX_RESPONSE_SNIPPET) \o <<".", ".", ".", " ", "[", "T", "R", "U", "N", "C", "A", "T", "E", "D", "]">>)

\* the noise filter chain of page.on('response'): TRUE when the response is dropped
noiseFiltered(r) ==
    \/ shouldIgnoreUrl(r.url)
    \/ shouldIgnoreResourceType(r.resourceType)
    \/ shouldIgnoreExtension(r.url)
    \/ (r.resourceType = "script" /\ r.status < 400)

\* ------------------------------------------- trace_cleaner.js: TraceCleaner
\* A number with two decimals is carried as hundredths: JDec(h) is h / 100,
\* and one with a single decimal as tenths: JTenths(n) is n / 10.
\* Durations are carried in tenths of a microsecond until they are rounded, so
\* the arithmetic below is exact (the binary rounding error of the source's
\* doubles is outside this model).
JDec(h) == [t |-> "number", v |-> h, e |-> 2]
JTenths(n) == [t |-> "number", v |-> n, e |-> 1]

JUndefined == [t |-> "undefined"]

\* val[key] on a non-null value: undefined unless val is an object holding key
prop(val, key) ==
    IF val.t = "object" /\ hasKey(val, key) THEN getKey(val, key) ELSE JUndefined

truthy(val) == ~(val.t = "undefined" \/ falsy(val))

\* a variant that cuts the digits after the second decimal
truncate2(d) == d \div 100

\* Math.round(ms * 100) / 100 for a duration d given in tenths of a microsecond
\* (ms = d / 10000), in hundredths
round2(d) == (d + 50) \div 100

\* ms.toFixed(1) for a duration d given in tenths of a microsecond
toFixed1(d) ==
    LET tenths == (d + 500) \div 1000
    IN  numberToString(tenths \div 10) \o <<".">> \o numberToString(tenths % 10)

ScriptingNames == { <<"E", "v", "a", "l", "u", "a", "t", "e", "S", "c", "r", "i", "p", "t">>, <<"F", "u", "n", "c", "t", "i", "o", "n", "C", "a", "l", "l">>, <<"v", "8", ".", "c", "o", "m", "p", "i", "l", "e">> }
RenderingNames == { <<"U", "p", "d", "a", "t", "e", "L", "a", "y", "o", "u", "t", "T", "r", "e", "e">>, <<"L", "a", "y", "o", "u", "t">>, <<"R", "e", "c", "a", "l", "c", "u", "l", "a", "t", "e", "S", "t", "y", "l", "e", "s">> }
PaintingNames == { <<"P", "a", "i", "n", "t">>, <<"C", "o", "m", "p", "o", "s", "i", "t", "e", "L", "a", "y", "e", "r", "s">> }

\* events with both dur and name truthy; the others are skipped by forEach
measured(event) == truthy(prop(event, <<"d", "u", "r">>)) /\ truthy(prop(event, <<"n", "a", "m", "e">>))

\* event.dur (microseconds), in tenths of a microsecond
eventDur(event) ==
    LET dur == prop(event, <<"d", "u", "r">>)
    IN  IF "e" \in DOMAIN dur THEN dur.v ELSE dur.v * 10
eventName(event) == prop(event, <<"n", "a", "m", "e">>).v

offenderName(event) ==
    LET args == prop(event, <<"a", "r", "g", "s">>)
        data == IF truthy(args) THEN prop(args, <<"d", "a", "t", "a">>) ELSE JUndefined
    IN  IF truthy(args) /\ truthy(data)
        THEN IF truthy(prop(data, <<"f", "u", "n", "c", "t", "i", "o", "n", "N", "a", "m", "e">>)) THEN prop(data, <<"f", "u", "n", "c", "t", "i", "o", "n", "N", "a", "m", "e">>).v
             ELSE IF truthy(prop(data, <<"u", "r", "l">>)) THEN prop(data, <<"u", "r", "l">>).v
             ELSE <<"I", "n", "l", "i", "n", "e", " ", "S", "c", "r", "i", "p", "t">>
        ELSE <<"A", "n", "o", "n", "y", "m", "o", "u", "s">>

RECURSIVE sumDur(_, _)
\* sum of the durations of the measured events named in names
sumDur(events, names) ==
    IF events = <<>> THEN 0
    ELSE (IF measured(Head(events)) /\ eventName(Head(events)) \in names
          THEN eventDur(Head(events)) ELSE 0)
         + sumDur(Tail(events), names)

\* a variant that counts a task of exactly 50 ms as long
isLongTaskInclusive(event) ==
    measured(event) /\ eventName(event) = <<"R", "u", "n", "T", "a", "s", "k">> /\ eventDur(event) >= 500000

isLongTask(event) ==
    measured(event) /\ eventName(event) = <<"R", "u", "n", "T", "a", "s", "k">> /\ eventDur(event) > 500000

RECURSIVE longTasks(_)
longTasks(events) ==
    IF events = <<>> THEN <<>>
    ELSE (IF isLongTask(Head(events)) THEN <<Head(events)>> ELSE <<>>)
         \o longTasks(Tail(events))

RECURSIVE blockingTime(_)
blockingTime(tasks) ==
    IF tasks = <<>> THEN 0 ELSE (eventDur(Head(tasks)) - 500000) + blockingTime(Tail(tasks))

\* a variant that takes a scripting event of exactly 10 ms as a candidate
isOffenderInclusive(event) ==
    measured(event) /\ eventName(event) \in ScriptingNames /\ eventDur(event) >= 100000

isOffender(event) ==
    measured(event) /\ eventName(event) \in ScriptingNames /\ eventDur(event) > 100000

RECURSIVE offenderTasks(_)
\* the tasks array, in encounter order
offenderTasks(events) ==
    IF events = <<>> THEN <<>>
    ELSE (IF isOffender(Head(events))
          THEN << [name |-> offenderName(Head(events)), duration |-> eventDur(Head(events))] >>
          ELSE <<>>)
         \o offenderTasks(Tail(events))

RECURSIVE insertSortedBeforeEqual(_, _)
\* a variant that puts task before the entries of the same duration
insertSortedBeforeEqual(sorted, task) ==
    IF sorted = <<>> THEN <<task>>
    ELSE IF Head(sorted).duration > task.duration
         THEN <<Head(sorted)>> \o insertSortedBeforeEqual(Tail(sorted), task)
         ELSE <<task>> \o sorted

RECURSIVE insertSorted(_, _)
\* insert task after every entry whose duration is not smaller (stable)
insertSorted(sorted, task) ==
    IF sorted = <<>> THEN <<task>>
    ELSE IF Head(sorted).duration >= task.duration
         THEN <<Head(sorted)>> \o insertSorted(Tail(sorted), task)
         ELSE <<task>> \o sorted

RECURSIVE sortByDuration(_)
\* tasks.sort((a, b) => b.duration - a.duration), a stable sort
sortByDuration(tasks) ==
    IF tasks = <<>> THEN <<>>
    ELSE insertSorted(sortByDuration(SubSeq(tasks, 1, Len(tasks) - 1)), tasks[Len(tasks)])

formatOffender(task) == JStr(task.name \o <<" ", "(">> \o toFixed1(task.duration) \o <<"m", "s", ")">>)

\* Array.prototype.slice(from, to)
slice(s, from, to) == SubSeq(s, from + 1, IF to > Len(s) THEN Len(s) ELSE to)

offenders(events) ==
    LET top == slice(sortByDuration(offenderTasks(events)), 0, 5)
    IN  [i \in 1..Len(top) |-> formatOffender(top[i])]

summarize(events) ==
    LET long == longTasks(events)
    IN  JObj(<<
          Entry(<<"s", "u", "m", "m", "a", "r", "y", "_", "t", "y", "p", "e">>, JStr(<<"p", "e", "r", "f", "o", "r", "m", "a", "n", "c", "e", "_", "b", "o", "t", "t", "l", "e", "n", "e", "c", "k", "s">>)),
          Entry(<<"m", "e", "t", "r", "i", "c", "s">>, JObj(<<
            Entry(<<"t", "o", "t", "a", "l", "_", "b", "l", "o", "c", "k", "i", "n", "g", "_", "t", "i", "m", "e">>, JDec(round2(blockingTime(long)))),
            Entry(<<"l", "o", "n", "g", "_", "t", "a", "s", "k", "s", "_", "c", "o", "u", "n", "t">>, JNum(Len(long))),
            Entry(<<"c", "a", "t", "e", "g", "o", "r", "i", "e", "s">>, JObj(<<
              Entry(<<"s", "c", "r", "i", "p", "t", "i", "n", "g">>, JDec(round2(sumDur(events, ScriptingNames)))),
              Entry(<<"r", "e", "n", "d", "e", "r", "i", "n", "g">>, JDec(round2(sumDur(events, RenderingNames)))),
              Entry(<<"p", "a", "i", "n", "t", "i", "n", "g">>, JDec(round2(sumDur(events, PaintingNames)))) >>)),
            Entry(<<"o", "f", "f", "e", "n", "d", "e", "r", "s">>, JArr(offenders(events))) >>)),
          Entry(<<"a", "n", "a", "l", "y", "s", "i", "s", "_", "h", "i", "n", "t">>,
            IF Len(long) > 0
            THEN JStr(<<"H", "i", "g", "h", " ", "m", "a", "i", "n", " ", "t", "h", "r", "e", "a", "d", " ", "b", "l", "o", "c", "k", "i", "n", "g", " ", "d", "e", "t", "e", "c", "t", "e", "d", ".", " ", "U", "I", " ", "m", "a", "y", " ", "f", "e", "e", "l", " ", "u", "n", "r", "e", "s", "p", "o", "n", "s", "i", "v", "e", ".">>)
            ELSE JStr(<<"P", "e", "r", "f", "o", "r", "m", "a", "n", "c", "e", " ", "l", "o", "o", "k", "s", " ", "h", "e", "a", "l", "t", "h", "y", ".">>)) >>)

\* A raw trace file: absent, unparsable text, or a JSON document.
NoTraceFile == [kind |-> "absent"]
CorruptTrace == [kind |-> "unparsable"]
JsonTrace(val) == [kind |-> "json", json |-> val]

Returned(val) == [outcome |-> "return", value |-> val]
Thrown == [outcome |-> "throw", value |-> JNull]

\* a variant that lets the read and parse errors of a bad file escape
processUnguarded(file) ==
    IF file.kind = "absent" THEN Returned(JNull)
    ELSE IF file.kind = "unparsable" THEN Thrown
    ELSE Returned(summarize(<<>>))

\* TraceCleaner.process on the file at tracePath; Thrown is a TypeError
\* raised outside the try block (property read on null, forEach on a non-array)
process(file) ==
    IF file.kind = "absent" THEN Returned(JNull)
    ELSE IF file.kind = "unparsable"
    THEN Returned(JObj(<<Entry(<<"e", "r", "r", "o", "r">>, JStr(<<"T", "r", "a", "c", "e", " ", "f", "i", "l", "e", " ", "c", "o", "r", "r", "u", "p", "t", "e", "d", " ", "o", "r", " ", "u", "n", "r", "e", "a", "d", "a", "b", "l", "e">>))>>))
    ELSE LET rawData == file.json
         IN  IF rawData.t = "null" THEN Thrown
             ELSE LET traceEvents == prop(rawData, <<"t", "r", "a", "c", "e", "E", "v", "e", "n", "t", "s">>)
                      events == IF truthy(traceEvents) THEN traceEvents
                                ELSE IF rawData.t = "array" THEN rawData ELSE JArr(<<>>)
                  IN  IF events.t # "array" THEN Thrown
                      ELSE IF \E i \in 1..Len(events.v) : events.v[i].t = "null" THEN Thrown
                      ELSE Returned(summarize(events.v))

\* ------------------------------------------------------------------- inputs
\* clickData objects handed to nodeLogClick by the page
ClickInputs ==
    { JObj(<< Entry(<<"x">>, JNum(1)), Entry(<<"y">>, JNum(2)),
              Entry(<<"s", "e", "l", "e", "c", "t", "o", "r">>,
                    JObj(<< Entry(<<"p", "a", "s", "s", "w", "o", "r", "d">>, JStr(<<"a", "b", "c">>)),
                            Entry(<<"i", "t", "e", "m", "s">>, JArr(<< JObj(<< Entry(<<"a", "p", "i", "K", "e", "y">>, JStr(<<"k", "1">>)),
                                                            Entry(<<"T", "o", "k", "e", "n">>, JNull) >>) >>)) >>)),
              Entry(<<"t", "a", "g", "N", "a", "m", "e">>, JStr(<<"A">>)) >>) }

\* observed network responses (request + response descriptors)
Responses ==
    << [url |-> <<"/", "a", "p", "i", "/", "l", "o", "g", "i", "n">>, method |-> <<"P", "O", "S", "T">>, status |-> 200, resourceType |-> "xhr",
        contentType |-> <<"a", "p", "p", "l", "i", "c", "a", "t", "i", "o", "n", "/", "j", "s", "o", "n">>,
        body |-> JObj(<< Entry(<<"t", "o", "k", "e", "n">>, JStr(<<"a", "b", "c">>)), Entry(<<"u", "s", "e", "r">>, JStr(<<"j", "o", "a", "o">>)) >>)],
       [url |-> <<"/", "l", "i", "b", ".", "j", "s">>, method |-> <<"G", "E", "T">>, status |-> 500, resourceType |-> "script",
        contentType |-> <<"t", "e", "x", "t", "/", "p", "l", "a", "i", "n">>, body |-> JNull],
       [url |-> <<"/", "c", "o", "l", "l", "e", "c", "t">>, method |-> <<"P", "O", "S", "T">>, status |-> 200, resourceType |-> "xhr",
        contentType |-> <<"a", "p", "p", "l", "i", "c", "a", "t", "i", "o", "n", "/", "j", "s", "o", "n">>, body |-> JObj(<< Entry(<<"o", "k">>, JBool(TRUE)) >>)] >>

\* console messages: type, text, location
ConsoleInputs ==
    { [type |-> "log", text |-> <<"h", "i">>,
        location |-> [present |-> TRUE, url |-> <<"/", "a", ".", "j", "s">>, lineNumber |-> 3]],
      [type |-> "error", text |-> <<"b", "o", "o", "m">>,
        location |-> [present |-> TRUE, url |-> <<>>, lineNumber |-> 0]] }

\* the location argument of logConsole: msg.location(), or null for a page error
NullLocation == [present |-> FALSE, url |-> <<>>, lineNumber |-> 0]

PageErrors == { <<"E", "r", "r", "o", "r", ":", " ", "x">> }

NavigationTrigger == <<"n", "a", "v", "i", "g", "a", "t", "i", "o", "n", "_", "c", "o", "m", "p", "l", "e", "t", "e">>

\* contents the raw trace file can have when the capture has been stopped
TraceFiles ==
    { CorruptTrace,
      JsonTrace(JNull),
      JsonTrace(JObj(<< Entry(<<"t", "r", "a", "c", "e", "E", "v", "e", "n", "t", "s">>, JArr(<<
          JObj(<< Entry(<<"n", "a", "m", "e">>, JStr(<<"R", "u", "n", "T", "a", "s", "k">>)), Entry(<<"d", "u", "r">>, JNum(120000)) >>),
          JObj(<< Entry(<<"n", "a", "m", "e">>, JStr(<<"F", "u", "n", "c", "t", "i", "o", "n", "C", "a", "l", "l">>)), Entry(<<"d", "u", "r">>, JNum(12345)),
                  Entry(<<"a", "r", "g", "s">>, JObj(<< Entry(<<"d", "a", "t", "a">>,
                        JObj(<< Entry(<<"f", "u", "n", "c", "t", "i", "o", "n", "N", "a", "m", "e">>, JStr(<<"f">>)) >>)) >>)) >>) >>)) >>)) }

\* -------------------------------------------------------------------- state
VARIABLES
    sessionFolder,      \* Logger.sessionFolder: the instant naming the folder, or NoFolder
    timeline,           \* Logger.timeline
    consoleDump,        \* Logger.consoleDump
    isActive,           \* Logger.isActive
    globalIsRecording,  \* part_002: globalIsRecording
    currentTracePath,   \* part_002: currentTracePath, named by its session folder, or NoFolder
    isStopping,         \* part_002: isStopping
    now,                \* the clock read by new Date()
    exited,             \* process.exit has run: the process state is gone, the disk stays
    stopPc,             \* per nodeStopRecording call: "idle" or "race" (awaiting Promise.race)
    stopRet,            \* value returned by the nodeStopRecording call that returned last
    inflight,           \* per response handler: where it is suspended
    snapRequests,       \* snapshot triggers sent to the page and not yet served
    \* The disk, as the files written since the last initSession:
    lastTimeline,       \* folder and content of the timeline.json written last, and
                        \* whether console_dump.log was written next to it
    snapshotFiles,      \* snapshot files, as <<folder, instant in the name>>
    rawTraces,          \* folders still holding raw_trace_temp.json after a stop
    stopEtl,            \* history: TraceCleaner.process runs since the running stop began
    stopUnlink,         \* history: raw-trace deletions attempted since the running stop began
    stopEnd,            \* history: logger.endSession calls since the running stop began
    stopArrived,        \* history: nodeStopRecording calls since the running stop began
    stopWrote,          \* history: the last of those endSession calls wrote timeline.json
    sanIn,              \* sanitize harness: the input value
    sanOut,             \* sanitize harness: sanitize(sanIn)
    sanTwice,           \* sanitize harness: sanitize(sanOut)
    sanPc,              \* sanitize harness: "off", "input", "once", "twice"
    fnIn,               \* function harness: the argument of the call
    fnOut,              \* function harness: what the call gave
    fnPc                \* function harness: "off", "input", "done"

loggerVars == <<sessionFolder, timeline, consoleDump, isActive>>
diskVars == <<lastTimeline, snapshotFiles, rawTraces>>
stopHistory == <<stopEtl, stopUnlink, stopEnd, stopArrived, stopWrote>>
sanVars == <<sanIn, sanOut, sanTwice, sanPc>>
fnVars == <<fnIn, fnOut, fnPc>>
mainVars == <<sessionFolder, timeline, consoleDump, isActive, globalIsRecording,
              currentTracePath, isStopping, now, exited, stopPc, stopRet, inflight,
              snapRequests, lastTimeline, snapshotFiles, rawTraces,
              stopEtl, stopUnlink, stopEnd, stopArrived, stopWrote>>
vars == <<sessionFolder, timeline, consoleDump, isActive, globalIsRecording,
          currentTracePath, isStopping, now, exited, stopPc, stopRet, inflight,
          snapRequests, lastTimeline, snapshotFiles, rawTraces,
          stopEtl, stopUnlink, stopEnd, stopArrived, stopWrote,
          sanIn, sanOut, sanTwice, sanPc, fnIn, fnOut, fnPc>>

NoFolder == -1
Null == -1
NotReturned == -2
Folders == 0..MaxClock
StopCalls == 1..MaxStopCalls
Handlers == 1..MaxInflight
IdleHandler == [pc |-> "idle", r |-> 0]
NoFile == [folder |-> NoFolder, content |-> <<>>, console |-> FALSE]

MainInit ==
    /\ sessionFolder = NoFolder
    /\ timeline = <<>>
    /\ consoleDump = <<>>
    /\ isActive = FALSE
    /\ globalIsRecording = FALSE
    /\ currentTracePath = NoFolder
    /\ isStopping = FALSE
    /\ now = 0
    /\ exited = FALSE
    /\ stopPc = [c \in StopCalls |-> "idle"]
    /\ stopRet = NotReturned
    /\ inflight = [h \in Handlers |-> IdleHandler]
    /\ snapRequests = {}
    /\ lastTimeline = NoFile
    /\ snapshotFiles = {}
    /\ rawTraces = {}
    /\ stopEtl = 0
    /\ stopUnlink = 0
    /\ stopEnd = 0
    /\ stopArrived = 0
    /\ stopWrote = FALSE

\* the harnesses are idle
SanOff == sanIn = JNull /\ sanOut = JNull /\ sanTwice = JNull /\ sanPc = "off"
FnOff == fnIn = JNull /\ fnOut = JNull /\ fnPc = "off"

Init ==
    /\ MainInit
    /\ SanOff
    /\ FnOff

\* ------------------------------------------------------------ Logger methods
\* new Date().toISOString() at instant n
toISOString(n) == numberToString(n) \o <<"Z">>

\* toISOString().replace(/[:.]/g, '-')
dashed(s) == [i \in 1..Len(s) |-> IF s[i] = ":" \/ s[i] = "." THEN "-" ELSE s[i]]

snapshotName(n) == <<"s", "n", "a", "p", "_", "c", "l", "e", "a", "n", "_">> \o dashed(toISOString(n)) \o <<".", "h", "t", "m", "l">>

newEvent(type, data) ==
    [timestamp |-> toISOString(now), type |-> type, data |-> sanitize(data)]

\* variant: the event is put in front of the buffer
logEventUnshift(tl, type, data) ==
    IF ~isActive THEN tl ELSE <<newEvent(type, data)>> \o tl

\* variant: no isActive guard
logEventUnguarded(tl, type, data) == Append(tl, newEvent(type, data))

\* Logger.logEvent applied to the buffer tl
logEvent(tl, type, data) ==
    IF ~isActive THEN tl ELSE Append(tl, newEvent(type, data))

consoleSource(location) ==
    IF ~location.present THEN <<>>
    ELSE location.url \o <<":">> \o numberToString(location.lineNumber)

consoleEntry(level, text, location) ==
    [timestamp |-> toISOString(now), level |-> level, message |-> text,
     source |-> consoleSource(location)]

consoleErrorData(text, location) ==
    JObj(<< Entry(<<"m", "e", "s", "s", "a", "g", "e">>, JStr(substring(text, 0, 200))),
            Entry(<<"s", "o", "u", "r", "c", "e">>, JStr(consoleSource(location))) >>)

\* a variant that puts a line of any level on the timeline
LogConsoleEveryLevel(level, text, location) ==
    IF ~isActive
    THEN UNCHANGED <<consoleDump, timeline>>
    ELSE /\ consoleDump' = Append(consoleDump, consoleEntry(level, text, location))
         /\ timeline' = logEvent(timeline, "CONSOLE_ERROR", consoleErrorData(text, location))

\* Logger.logConsole
LogConsole(level, text, location) ==
    IF ~isActive
    THEN UNCHANGED <<consoleDump, timeline>>
    ELSE /\ consoleDump' = Append(consoleDump, consoleEntry(level, text, location))
         /\ IF level = "error"
            THEN /\ timeline' = logEvent(timeline, "CONSOLE_ERROR", consoleErrorData(text, location))
            ELSE UNCHANGED timeline

\* a variant that closes the session before it writes, so that a failed write
\* of timeline.json leaves an inactive Logger with an empty buffer
endSessionClosesFirst(tl, io) ==
    LET kept == [ret |-> Null, thrown |-> FALSE, wrote |-> FALSE, wroteConsole |-> FALSE,
                 folder |-> sessionFolder, content |-> tl, isActive |-> isActive,
                 sessionFolder |-> sessionFolder, timeline |-> tl,
                 consoleDump |-> consoleDump]
        closed == [kept EXCEPT !.isActive = FALSE, !.sessionFolder = NoFolder,
                               !.timeline = <<>>, !.consoleDump = <<>>]
    IN  IF ~isActive \/ sessionFolder = NoFolder THEN kept
        ELSE IF io = "timelineWriteFails" THEN [closed EXCEPT !.thrown = TRUE]
        ELSE IF consoleDump # <<>> /\ io = "consoleWriteFails"
        THEN [closed EXCEPT !.thrown = TRUE, !.wrote = TRUE]
        ELSE [closed EXCEPT !.ret = sessionFolder, !.wrote = TRUE,
                            !.wroteConsole = (consoleDump # <<>>)]

\* Logger.endSession on the buffer tl; io names the write that throws, if any.
\* The result carries the return value, whether it threw, whether timeline.json
\* and console_dump.log were written, and the Logger fields afterwards.
endSession(tl, io) ==
    LET kept == [ret |-> Null, thrown |-> FALSE, wrote |-> FALSE, wroteConsole |-> FALSE,
                 folder |-> sessionFolder, content |-> tl, isActive |-> isActive,
                 sessionFolder |-> sessionFolder, timeline |-> tl,
                 consoleDump |-> consoleDump]
    IN  IF ~isActive \/ sessionFolder = NoFolder THEN kept
        ELSE IF io = "timelineWriteFails" THEN [kept EXCEPT !.thrown = TRUE]
        ELSE IF consoleDump # <<>> /\ io = "consoleWriteFails"
        THEN [kept EXCEPT !.thrown = TRUE, !.wrote = TRUE]
        ELSE [kept EXCEPT !.ret = sessionFolder, !.wrote = TRUE,
                          !.wroteConsole = (consoleDump # <<>>),
                          !.isActive = FALSE, !.sessionFolder = NoFolder,
                          !.timeline = <<>>, !.consoleDump = <<>>]

IoOutcomes == {"ok", "timelineWriteFails", "consoleWriteFails"}

\* the outcomes endSession can have in the current state: it writes nothing when
\* no session is active, and console_dump.log only when consoleDump is not empty
IoChoices ==
    IF ~isActive \/ sessionFolder = NoFolder THEN {"ok"}
    ELSE IF consoleDump = <<>> THEN {"ok", "timelineWriteFails"}
    ELSE IoOutcomes

\* the state after logger.endSession() with result e
ApplyEndSession(e) ==
    /\ isActive' = e.isActive
    /\ sessionFolder' = e.sessionFolder
    /\ timeline' = e.timeline
    /\ consoleDump' = e.consoleDump
    /\ lastTimeline' = IF e.wrote
                       THEN [folder |-> e.folder, content |-> e.content,
                             console |-> e.wroteConsole]
                       ELSE lastTimeline

\* ---------------------------------------------------------------- the clock
Tick ==
    /\ ~exited
    /\ now < MaxClock
    /\ now' = now + 1
    /\ UNCHANGED <<loggerVars, globalIsRecording, currentTracePath, isStopping, exited,
                   stopPc, stopRet, inflight, snapRequests, diskVars,
                   stopHistory, sanVars, fnVars>>

\* ------------------------------------------------- part_002: nodeStartRecording
\* globalIsRecording = true; logger.initSession(OUTPUT_DIR); currentTracePath is
\* set; the awaited page.tracing.start changes none of this state.
nodeStartRecording ==
    /\ ~exited
    /\ globalIsRecording' = TRUE
    /\ sessionFolder' = now
    /\ timeline' = <<>>
    /\ consoleDump' = <<>>
    /\ isActive' = TRUE
    /\ currentTracePath' = now
    /\ lastTimeline' = NoFile
    /\ snapshotFiles' = {}
    /\ rawTraces' = {}
    /\ IF \A c \in StopCalls : stopPc[c] = "idle"
       THEN /\ stopRet' = NotReturned
            /\ stopEtl' = 0 /\ stopUnlink' = 0 /\ stopEnd' = 0
            /\ stopArrived' = 0 /\ stopWrote' = FALSE
       ELSE UNCHANGED <<stopRet, stopHistory>>
    /\ UNCHANGED <<isStopping, now, exited, stopPc, inflight, snapRequests, sanVars, fnVars>>

\* ------------------------------------------------------ part_002: nodeLogClick
clickEntry(clickData) ==
    JObj(<< Entry(<<"a", "c", "t", "i", "o", "n">>, JStr(<<"c", "l", "i", "c", "k">>)),
            Entry(<<"x">>, getKey(clickData, <<"x">>)),
            Entry(<<"y">>, getKey(clickData, <<"y">>)),
            Entry(<<"s", "e", "l", "e", "c", "t", "o", "r">>, getKey(clickData, <<"s", "e", "l", "e", "c", "t", "o", "r">>)),
            Entry(<<"t", "a", "g", "N", "a", "m", "e">>, getKey(clickData, <<"t", "a", "g", "N", "a", "m", "e">>)) >>)

nodeLogClick ==
    /\ ~exited
    /\ globalIsRecording
    /\ Len(timeline) < MaxTimeline
    /\ \E clickData \in ClickInputs :
         /\ timeline' = logEvent(timeline, "USER_INTERACTION", clickEntry(clickData))
    /\ UNCHANGED <<sessionFolder, consoleDump, isActive, globalIsRecording, currentTracePath,
                   isStopping, now, exited, stopPc, stopRet, inflight, snapRequests,
                   diskVars, stopHistory, sanVars, fnVars>>

\* ------------------------------------------- part_002: page.on('console' / 'pageerror')
onConsole ==
    /\ ~exited
    /\ globalIsRecording
    /\ Len(timeline) < MaxTimeline
    /\ Len(consoleDump) < MaxConsole
    /\ \E msg \in ConsoleInputs : LogConsole(msg.type, msg.text, msg.location)
    /\ UNCHANGED <<sessionFolder, isActive, globalIsRecording, currentTracePath, isStopping,
                   now, exited, stopPc, stopRet, inflight, snapRequests, diskVars,
                   stopHistory, sanVars, fnVars>>

onPageError ==
    /\ ~exited
    /\ globalIsRecording
    /\ Len(timeline) < MaxTimeline
    /\ Len(consoleDump) < MaxConsole
    /\ \E err \in PageErrors : LogConsole("error", err, NullLocation)
    /\ UNCHANGED <<sessionFolder, isActive, globalIsRecording, currentTracePath, isStopping,
                   now, exited, stopPc, stopRet, inflight, snapRequests, diskVars,
                   stopHistory, sanVars, fnVars>>

\* -------------------------------------------------- part_002: nodeSaveSnapshot
snapshotData(trigger) ==
    JObj(<< Entry(<<"f", "i", "l", "e">>, JStr(snapshotName(now))), Entry(<<"t", "r", "i", "g", "g", "e", "r">>, JStr(trigger)) >>)

\* a variant that logs the SNAPSHOT event before it writes the file
saveSnapshotLogsFirst(tl, trigger, writeOk) ==
    IF ~isActive \/ sessionFolder = NoFolder
    THEN [ret |-> JNull, thrown |-> FALSE, timeline |-> tl, files |-> snapshotFiles]
    ELSE IF ~writeOk
    THEN [ret |-> JNull, thrown |-> TRUE,
          timeline |-> logEvent(tl, "SNAPSHOT", snapshotData(trigger)),
          files |-> snapshotFiles]
    ELSE [ret |-> JStr(snapshotName(now)), thrown |-> FALSE,
          timeline |-> logEvent(tl, "SNAPSHOT", snapshotData(trigger)),
          files |-> snapshotFiles \cup {<<sessionFolder, now>>}]

\* Logger.saveSnapshot on the buffer tl; writeOk is the outcome of
\* fs.writeFileSync, whose exception leaves before logEvent.  The result carries
\* the return value, whether it threw, and the buffer and snapshot files afterwards.
saveSnapshot(tl, trigger, writeOk) ==
    IF ~isActive \/ sessionFolder = NoFolder
    THEN [ret |-> JNull, thrown |-> FALSE, timeline |-> tl, files |-> snapshotFiles]
    ELSE IF ~writeOk
    THEN [ret |-> JNull, thrown |-> TRUE, timeline |-> tl, files |-> snapshotFiles]
    ELSE [ret |-> JStr(snapshotName(now)), thrown |-> FALSE,
          timeline |-> logEvent(tl, "SNAPSHOT", snapshotData(trigger)),
          files |-> snapshotFiles \cup {<<sessionFolder, now>>}]

\* The page serves a snapshot request (or a page load asks for one) by calling
\* nodeSaveSnapshot; it returns null unless globalIsRecording.
nodeSaveSnapshot ==
    /\ ~exited
    /\ \E trigger \in snapRequests \cup {NavigationTrigger} :
         /\ snapRequests' = snapRequests \ {trigger}
         /\ IF ~globalIsRecording
            THEN UNCHANGED <<timeline, snapshotFiles>>
            ELSE \E writeOk \in (IF isActive THEN BOOLEAN ELSE {TRUE}) :
                   LET s == saveSnapshot(timeline, trigger, writeOk)
                   IN  /\ s.timeline # timeline => Len(timeline) < MaxTimeline
                       /\ timeline' = s.timeline
                       /\ snapshotFiles' = s.files
    /\ UNCHANGED <<sessionFolder, consoleDump, isActive, globalIsRecording, currentTracePath,
                   isStopping, now, exited, stopPc, stopRet, inflight, lastTimeline,
                   rawTraces, stopHistory, sanVars, fnVars>>

\* -------------------------------------------------- part_002: page.on('response')
networkErrorTrigger(status) == <<"n", "e", "t", "w", "o", "r", "k", "_", "e", "r", "r", "o", "r", "_">> \o numberToString(status)

networkEntry(r, responseSnippet) ==
    JObj(<< Entry(<<"m", "e", "t", "h", "o", "d">>, JStr(r.method)), Entry(<<"u", "r", "l">>, JStr(r.url)),
            Entry(<<"s", "t", "a", "t", "u", "s">>, JNum(r.status)) >>
         \o (IF truthy(responseSnippet)
             THEN << Entry(<<"r", "e", "s", "p", "o", "n", "s", "e", "S", "n", "i", "p", "p", "e", "t">>, responseSnippet) >> ELSE <<>>))

\* lines 374-399: build the entry, log it, request a snapshot on an error status
LogResponse(r, responseSnippet) ==
    /\ timeline' = logEvent(timeline, "NETWORK_REQUEST", networkEntry(r, responseSnippet))
    /\ snapRequests' = IF r.status >= 400
                       THEN snapRequests \cup {networkErrorTrigger(r.status)}
                       ELSE snapRequests

interactive(r) == r.resourceType \in {"xhr", "fetch", "document"}

wantsJson(r) ==
    /\ r.resourceType \in {"xhr", "fetch"}
    /\ includes(r.contentType, <<"a", "p", "p", "l", "i", "c", "a", "t", "i", "o", "n", "/", "j", "s", "o", "n">>)

\* A response arrives and passes the noise filter.  For xhr / fetch / document
\* the handler suspends at the toast's page.evaluate; otherwise it runs on to
\* the recording check and logs at once (no await on that path).
onResponse(h) ==
    /\ ~exited
    /\ inflight[h].pc = "idle"
    /\ Len(timeline) < MaxTimeline
    /\ \E i \in 1..Len(Responses) :
         LET r == Responses[i]
         IN  /\ ~noiseFiltered(r)
             /\ IF interactive(r)
                THEN /\ inflight' = [inflight EXCEPT ![h] = [pc |-> "toast", r |-> i]]
                     /\ UNCHANGED <<timeline, snapRequests>>
                ELSE /\ globalIsRecording
                     /\ LogResponse(r, JNull)
                     /\ UNCHANGED inflight
    /\ UNCHANGED <<sessionFolder, consoleDump, isActive, globalIsRecording, currentTracePath,
                   isStopping, now, exited, stopPc, stopRet, diskVars, stopHistory, sanVars, fnVars>>

\* The toast's await settles: line 354 reads globalIsRecording; a JSON xhr / fetch
\* then suspends at response.json(), any other response is logged at once.
afterToast(h) ==
    /\ ~exited
    /\ inflight[h].pc = "toast"
    /\ LET r == Responses[inflight[h].r]
       IN  IF ~globalIsRecording
           THEN /\ inflight' = [inflight EXCEPT ![h] = IdleHandler]
                /\ UNCHANGED <<timeline, snapRequests>>
           ELSE IF wantsJson(r)
           THEN /\ inflight' = [inflight EXCEPT ![h].pc = "json"]
                /\ UNCHANGED <<timeline, snapRequests>>
           ELSE /\ inflight' = [inflight EXCEPT ![h] = IdleHandler]
                /\ LogResponse(r, JNull)
    /\ UNCHANGED <<sessionFolder, consoleDump, isActive, globalIsRecording, currentTracePath,
                   isStopping, now, exited, stopPc, stopRet, diskVars, stopHistory, sanVars, fnVars>>

\* response.json() settles: parsed gives the snippet, a rejection is swallowed
\* (no snippet); then the entry is logged.  globalIsRecording is not read again.
afterJson(h) ==
    /\ ~exited
    /\ inflight[h].pc = "json"
    /\ \E parsed \in BOOLEAN :
         LET r == Responses[inflight[h].r]
             responseSnippet == IF parsed THEN getResponseSnippet(r.body) ELSE JNull
         IN  LogResponse(r, responseSnippet)
    /\ inflight' = [inflight EXCEPT ![h] = IdleHandler]
    /\ UNCHANGED <<sessionFolder, consoleDump, isActive, globalIsRecording, currentTracePath,
                   isStopping, now, exited, stopPc, stopRet, diskVars, stopHistory, sanVars, fnVars>>

\* -------------------------------------------------- part_002: nodeStopRecording
\* variant: no lock
stopNeverBlocked == FALSE

\* line 210: the concurrency lock
stopBlocked == isStopping

\* variant: the catch block rethrows
tracingErrorRethrown(failed) == failed

\* lines 251-255: the catch block logs and does not rethrow, so a failure of the
\* tracing step never leaves the function
tracingErrorEscapes(failed) == FALSE

bump(n) == IF n < 2 THEN n + 1 ELSE n

noStopRunning == \A c \in StopCalls : stopPc[c] = "idle"

\* variant: the fatal path returns without resetting the lock
FlushKeepsLockOnFatal(c, tl, io) ==
    LET e == endSession(tl, io)
    IN  /\ ApplyEndSession(e)
        /\ isStopping' = e.thrown
        /\ stopPc' = [stopPc EXCEPT ![c] = "idle"]
        /\ stopRet' = IF e.thrown THEN Null ELSE e.ret
        /\ stopWrote' = e.wrote

\* lines 260-275: logger.endSession() inside try / catch, the lock reset, the return
Flush(c, tl, io) ==
    LET e == endSession(tl, io)
    IN  /\ ApplyEndSession(e)
        /\ isStopping' = FALSE
        /\ stopPc' = [stopPc EXCEPT ![c] = "idle"]
        /\ stopRet' = IF e.thrown THEN Null ELSE e.ret
        /\ stopWrote' = e.wrote

\* The call up to its first suspension.  A re-entrant call returns null.  With
\* no trace pending nothing is awaited and the call runs to its return.
nodeStopRecording(c) ==
    /\ ~exited
    /\ stopPc[c] = "idle"
    /\ \A d \in StopCalls : d < c => stopPc[d] # "idle"   \* calls are numbered as they arrive
    /\ IF stopBlocked
       THEN /\ stopRet' = Null
            /\ stopArrived' = bump(stopArrived)
            /\ UNCHANGED <<loggerVars, globalIsRecording, currentTracePath, isStopping,
                           stopPc, diskVars, stopEtl, stopUnlink, stopEnd,
                           stopWrote>>
       ELSE /\ globalIsRecording' = FALSE
            /\ stopArrived' = IF noStopRunning THEN 1 ELSE bump(stopArrived)
            /\ IF currentTracePath # NoFolder
               THEN /\ isStopping' = TRUE
                    /\ stopPc' = [stopPc EXCEPT ![c] = "race"]
                    /\ IF noStopRunning
                       THEN /\ stopEtl' = 0 /\ stopUnlink' = 0 /\ stopEnd' = 0
                            /\ stopWrote' = FALSE
                       ELSE UNCHANGED <<stopEtl, stopUnlink, stopEnd, stopWrote>>
                    /\ UNCHANGED <<loggerVars, currentTracePath, stopRet, diskVars>>
               ELSE /\ \E io \in IoChoices : Flush(c, timeline, io)
                    /\ stopEtl' = IF noStopRunning THEN 0 ELSE stopEtl
                    /\ stopUnlink' = IF noStopRunning THEN 0 ELSE stopUnlink
                    /\ stopEnd' = IF noStopRunning THEN 1 ELSE bump(stopEnd)
                    /\ UNCHANGED <<currentTracePath, snapshotFiles, rawTraces>>
    /\ UNCHANGED <<now, exited, inflight, snapRequests, sanVars, fnVars>>

\* How Promise.race settles: page.tracing.stop() resolves (file is what then lies
\* at currentTracePath, unlinkOk the outcome of fs.unlinkSync), it rejects, or
\* the 5-second timer wins.
RaceOutcomes ==
    { [outcome |-> "resolved", file |-> f, unlinkOk |-> u] :
          f \in TraceFiles \cup {NoTraceFile}, u \in BOOLEAN }
    \cup { [outcome |-> o, file |-> NoTraceFile, unlinkOk |-> TRUE] :
              o \in {"rejected", "timeout"} }

\* Promise.race settles and the call runs to its return: lines 236-275.
stopResume(c) ==
    /\ ~exited
    /\ stopPc[c] = "race"
    /\ \E race \in RaceOutcomes, io \in IoChoices :
         LET exists == race.outcome = "resolved" /\ currentTracePath # NoFolder
                       /\ race.file.kind # "absent"
             traceSummary == process(race.file)
             failed == race.outcome # "resolved"
                       \/ (exists /\ traceSummary.outcome = "throw")
             injected == exists /\ traceSummary.outcome = "return"
                         /\ truthy(traceSummary.value)
             unlinked == exists /\ traceSummary.outcome = "return"
             tl == IF injected
                   THEN logEvent(timeline, "PERFORMANCE_SUMMARY", traceSummary.value)
                   ELSE timeline
         IN  /\ rawTraces' = IF exists /\ ~(unlinked /\ race.unlinkOk)
                             THEN rawTraces \cup {currentTracePath}
                             ELSE rawTraces \ {currentTracePath}
             /\ stopEtl' = IF exists THEN bump(stopEtl) ELSE stopEtl
             /\ stopUnlink' = IF unlinked THEN bump(stopUnlink) ELSE stopUnlink
             /\ currentTracePath' = NoFolder
             /\ IF tracingErrorEscapes(failed)
                THEN /\ stopPc' = [stopPc EXCEPT ![c] = "idle"]
                     /\ UNCHANGED <<loggerVars, lastTimeline, isStopping, stopRet,
                                    stopEnd, stopWrote>>
                ELSE /\ stopEnd' = bump(stopEnd)
                     /\ Flush(c, tl, io)
    /\ UNCHANGED <<globalIsRecording, now, exited, inflight, snapRequests, snapshotFiles,
                   stopArrived, sanVars, fnVars>>

\* ------------------------------------------- part_002: browser.on('disconnected')
onDisconnected ==
    /\ ~exited
    /\ exited' = TRUE
    /\ IF globalIsRecording
       THEN \E io \in IoChoices :
              LET e == endSession(timeline, io)
              IN  lastTimeline' = IF e.wrote
                                  THEN [folder |-> e.folder, content |-> e.content,
                                        console |-> e.wroteConsole]
                                  ELSE lastTimeline
       ELSE UNCHANGED lastTimeline
    \* process.exit(0): what the process held in memory is gone
    /\ sessionFolder' = NoFolder
    /\ timeline' = <<>>
    /\ consoleDump' = <<>>
    /\ isActive' = FALSE
    /\ globalIsRecording' = FALSE
    /\ currentTracePath' = NoFolder
    /\ isStopping' = FALSE
    /\ stopPc' = [c \in StopCalls |-> "idle"]
    /\ stopRet' = NotReturned
    /\ inflight' = [h \in Handlers |-> IdleHandler]
    /\ snapRequests' = {}
    /\ stopEtl' = 0 /\ stopUnlink' = 0 /\ stopEnd' = 0
    /\ stopArrived' = 0 /\ stopWrote' = FALSE
    /\ UNCHANGED <<now, snapshotFiles, rawTraces, sanVars, fnVars>>

Next ==
    \/ Tick
    \/ nodeStartRecording
    \/ nodeLogClick
    \/ onConsole
    \/ onPageError
    \/ nodeSaveSnapshot
    \/ \E h \in Handlers : onResponse(h)
    \/ \E h \in Handlers : afterToast(h)
    \/ \E h \in Handlers : afterJson(h)
    \/ \E c \in StopCalls : nodeStopRecording(c)
    \/ \E c \in StopCalls : stopResume(c)
    \/ onDisconnected

Spec == Init /\ [][Next]_vars

\* The 5-second timer settles the race, so a suspended stop call is resumed.
FairSpec == Spec /\ \A c \in StopCalls : WF_vars(stopResume(c))

\* ----------------------------------------------------------- sanitize harness
SanKeys == { <<"u", "s", "e", "r">>, <<"P", "a", "s", "s", "w", "o", "r", "d">>, <<"a", "p", "i", "K", "e", "y">>, <<"m", "o", "n", "k", "e", "y">> }
SanLeaves == { JNull, JStr(<<"a", "b", "c">>), REDACTED, JNum(7), JBool(TRUE) }

\* objects of one or two entries and arrays of at most two items over inner
SanObjects(inner) ==
    { JObj(<<Entry(k, val)>>) : k \in SanKeys, val \in inner }
    \cup { JObj(<<Entry(<<"u", "s", "e", "r">>, v1), Entry(<<"P", "a", "s", "s", "w", "o", "r", "d">>, v2)>>) : v1 \in inner, v2 \in inner }
SanArrays(inner) ==
    { JArr(<<>>) } \cup { JArr(<<val>>) : val \in inner }
    \cup { JArr(<<v1, v2>>) : v1 \in inner, v2 \in inner }

SanLevel1 == SanLeaves \cup SanObjects(SanLeaves) \cup SanArrays(SanLeaves)
SanMid == SanLeaves \cup SanObjects({JNull, JStr(<<"a", "b", "c">>)}) \cup SanArrays({JNull, JStr(<<"a", "b", "c">>)})
\* values nested three deep: an object inside an array inside an object or array
SanNested ==
    { JObj(<<Entry(k, JArr(<<o>>))>>) : k \in {<<"u", "s", "e", "r">>, <<"m", "o", "n", "k", "e", "y">>}, o \in SanObjects(SanLeaves) }
    \cup { JArr(<<JArr(<<o>>)>>) : o \in SanObjects(SanLeaves) }

SanInputs == SanLevel1 \cup SanObjects(SanMid) \cup SanArrays(SanMid) \cup SanNested

SanInit ==
    /\ MainInit
    /\ sanIn \in SanInputs
    /\ sanOut = JNull
    /\ sanTwice = JNull
    /\ sanPc = "input"
    /\ FnOff

SanOnce ==
    /\ sanPc = "input"
    /\ sanOut' = sanitize(sanIn)
    /\ sanPc' = "once"
    /\ UNCHANGED <<sanIn, sanTwice, mainVars, fnVars>>

SanAgain ==
    /\ sanPc = "once"
    /\ sanTwice' = sanitize(sanOut)
    /\ sanPc' = "twice"
    /\ UNCHANGED <<sanIn, sanOut, mainVars, fnVars>>

SanNext == SanOnce \/ SanAgain

SanSpec == SanInit /\ [][SanNext]_vars

\* ------------------------------------------------------- noise filter harness
FilterUrls ==
    { <<"/", "a", "p", "i", "/", "l", "o", "g", "i", "n">>, <<"/", "l", "i", "b", ".", "j", "s">>, <<"/", "c", "o", "l", "l", "e", "c", "t">>, <<"/", "A", "P", "I", "/", "P", "i", "n", "g">>, <<"/", "a", ".", "p", "n", "g">>, <<"/", "A", ".", "P", "N", "G">>,
      <<"/", "a", ".", "c", "s", "s", "?", "v", "=", "1">>, <<"/", "a", ".", "c", "s", "s", "?", "v", "=", "1", ".", "2">>, <<"/", "i", "m", "g", "?", "u", "=", "/", "a", ".", "p", "n", "g">>, <<"/", "a", ".", "p", "n", "g", "2">> }
FilterResourceTypes == {"xhr", "fetch", "document", "script", "image", "stylesheet", "other"}
FilterStatuses == {200, 399, 400, 500}

\* the descriptors of the responses the page can deliver to the handler
FilterInputs ==
    { [url |-> u, resourceType |-> ty, status |-> st] :
        u \in FilterUrls, ty \in FilterResourceTypes, st \in FilterStatuses }

FilterInit ==
    /\ MainInit
    /\ SanOff
    /\ fnIn \in FilterInputs
    /\ fnOut = JNull
    /\ fnPc = "input"

\* the response handler runs its filter chain: fnOut tells whether it returned early
FilterChain ==
    /\ fnPc = "input"
    /\ fnOut' = JBool(noiseFiltered(fnIn))
    /\ fnPc' = "done"
    /\ UNCHANGED <<fnIn, mainVars, sanVars>>

FilterNext == FilterChain

FilterSpec == FilterInit /\ [][FilterNext]_vars

\* --------------------------------------------------- response snippet harness
SnippetMargin == 30
SnippetLengths == (MAX_RESPONSE_SNIPPET - SnippetMargin)..(MAX_RESPONSE_SNIPPET + SnippetMargin)
filler(n) == [i \in 1..n |-> "a"]

\* an array of ten strings that JSON.stringify turns into n characters: nine
\* strings of 100 letters and one that fills up
chunked(n) ==
    JArr([i \in 1..10 |-> JStr(filler(IF i < 10 THEN 100 ELSE n - 931))])

\* parsed JSON bodies around the size limit: strings, arrays of strings, and
\* the values getResponseSnippet takes for no response at all
SnippetInputs ==
    { JStr(filler(n)) : n \in SnippetLengths }
    \cup { chunked(n) : n \in SnippetLengths }
    \cup { JNull, JStr(<<>>), JNum(0), JBool(FALSE), JBool(TRUE), JNum(7) }

SnippetInit ==
    /\ MainInit
    /\ SanOff
    /\ fnIn \in SnippetInputs
    /\ fnOut = JNull
    /\ fnPc = "input"

\* responseSnippet = getResponseSnippet(json)
SnippetCall ==
    /\ fnPc = "input"
    /\ fnOut' = getResponseSnippet(fnIn)
    /\ fnPc' = "done"
    /\ UNCHANGED <<fnIn, mainVars, sanVars>>

SnippetNext == SnippetCall

SnippetSpec == SnippetInit /\ [][SnippetNext]_vars

\* ------------------------------------------------------ TraceCleaner harness
traceEvent(name, dur) == JObj(<< Entry(<<"n", "a", "m", "e">>, JStr(name)), Entry(<<"d", "u", "r">>, dur) >>)
\* a scripting event carrying args.data.functionName
callEvent(fn, dur) ==
    JObj(<< Entry(<<"n", "a", "m", "e">>, JStr(<<"F", "u", "n", "c", "t", "i", "o", "n", "C", "a", "l", "l">>)), Entry(<<"d", "u", "r">>, dur),
            Entry(<<"a", "r", "g", "s">>, JObj(<< Entry(<<"d", "a", "t", "a">>, JObj(<< Entry(<<"f", "u", "n", "c", "t", "i", "o", "n", "N", "a", "m", "e">>, JStr(fn)) >>)) >>)) >>)

\* durations are microseconds; JTenths(123456) is 12345.6 microseconds
TraceEventPool ==
    { traceEvent(<<"R", "u", "n", "T", "a", "s", "k">>, JNum(120000)),
      traceEvent(<<"R", "u", "n", "T", "a", "s", "k">>, JNum(50000)),
      traceEvent(<<"R", "u", "n", "T", "a", "s", "k">>, JNum(50001)),
      traceEvent(<<"R", "u", "n", "T", "a", "s", "k">>, JNum(73456)),
      callEvent(<<"f">>, JTenths(123456)),
      traceEvent(<<"E", "v", "a", "l", "u", "a", "t", "e", "S", "c", "r", "i", "p", "t">>, JNum(50000)),
      JObj(<< Entry(<<"n", "a", "m", "e">>, JStr(<<"v", "8", ".", "c", "o", "m", "p", "i", "l", "e">>)), Entry(<<"d", "u", "r">>, JNum(100000)),
              Entry(<<"a", "r", "g", "s">>, JObj(<< Entry(<<"d", "a", "t", "a">>,
                    JObj(<< Entry(<<"u", "r", "l">>, JStr(<<"u">>)) >>)) >>)) >>),
      traceEvent(<<"F", "u", "n", "c", "t", "i", "o", "n", "C", "a", "l", "l">>, JNum(10000)),
      traceEvent(<<"E", "v", "a", "l", "u", "a", "t", "e", "S", "c", "r", "i", "p", "t">>, JNum(10001)),
      JObj(<< Entry(<<"n", "a", "m", "e">>, JStr(<<"E", "v", "a", "l", "u", "a", "t", "e", "S", "c", "r", "i", "p", "t">>)), Entry(<<"d", "u", "r">>, JNum(30000)),
              Entry(<<"a", "r", "g", "s">>, JObj(<< Entry(<<"d", "a", "t", "a">>, JObj(<<>>)) >>)) >>),
      JObj(<< Entry(<<"n", "a", "m", "e">>, JStr(<<"v", "8", ".", "c", "o", "m", "p", "i", "l", "e">>)), Entry(<<"d", "u", "r">>, JNum(40000)),
              Entry(<<"a", "r", "g", "s">>, JObj(<<>>)) >>),
      traceEvent(<<"L", "a", "y", "o", "u", "t">>, JNum(3004)),
      traceEvent(<<"P", "a", "i", "n", "t">>, JNum(2000)),
      traceEvent(<<"G", "C", "E", "v", "e", "n", "t">>, JNum(7000)),
      JObj(<< Entry(<<"n", "a", "m", "e">>, JStr(<<"P", "a", "i", "n", "t">>)) >>),
      JObj(<< Entry(<<"d", "u", "r">>, JNum(5000)) >>),
      JNum(7) }

MaxTraceEvents == 2
TraceEventLists ==
    UNION { [1..n -> TraceEventPool] : n \in 0..MaxTraceEvents }

\* offender candidates named by their position, of 20 ms or 50 ms each
MinCandidates == 6
MaxCandidates == 7
positionName(i) == << <<"a", "b", "c", "d", "e", "f", "g", "h", "i", "j">>[i] >>
CandidateLists ==
    UNION { { [i \in 1..n |-> callEvent(positionName(i), JNum(durs[i]))] :
                durs \in [1..n -> {20000, 50000}] } : n \in MinCandidates..MaxCandidates }
\* candidates of 5, 50, 50, 3 and 100 ms
MixedCandidates ==
    << callEvent(<<"a">>, JNum(5000)), callEvent(<<"b">>, JNum(50000)), callEvent(<<"c">>, JNum(50000)),
       callEvent(<<"d">>, JNum(3000)), callEvent(<<"e">>, JNum(100000)) >>

TraceInputs ==
    { NoTraceFile, CorruptTrace, JsonTrace(JNull), JsonTrace(JObj(<<>>)),
      JsonTrace(JNum(5)), JsonTrace(JStr(<<"a", "b", "c">>)), JsonTrace(JBool(TRUE)),
      JsonTrace(JObj(<< Entry(<<"t", "r", "a", "c", "e", "E", "v", "e", "n", "t", "s">>, JNull) >>)),
      JsonTrace(JObj(<< Entry(<<"t", "r", "a", "c", "e", "E", "v", "e", "n", "t", "s">>, JStr(<<"a", "b", "c">>)) >>)),
      JsonTrace(JObj(<< Entry(<<"t", "r", "a", "c", "e", "E", "v", "e", "n", "t", "s">>, JNum(5)) >>)),
      JsonTrace(JArr(<<JNull>>)) }
    \cup { JsonTrace(JObj(<< Entry(<<"t", "r", "a", "c", "e", "E", "v", "e", "n", "t", "s">>, JArr(evs)) >>)) :
             evs \in TraceEventLists \cup CandidateLists \cup {MixedCandidates} }
    \cup { JsonTrace(JArr(evs)) : evs \in TraceEventLists }

TraceInit ==
    /\ MainInit
    /\ SanOff
    /\ fnIn \in TraceInputs
    /\ fnOut = JNull
    /\ fnPc = "input"

\* traceSummary = TraceCleaner.process(tracePath)
TraceProcess ==
    /\ fnPc = "input"
    /\ fnOut' = process(fnIn)
    /\ fnPc' = "done"
    /\ UNCHANGED <<fnIn, mainVars, sanVars>>

TraceNext == TraceProcess

TraceSpec == TraceInit /\ [][TraceNext]_vars

\* =================================================================== claims
lastEvent(tl) == tl[Len(tl)]

appendedOne(old, new) == Len(new) = Len(old) + 1 /\ SubSeq(new, 1, Len(old)) = old

\* a nodeStopRecording call arrives while the lock is held
ReentrantStop == isStopping /\ \E c \in StopCalls : nodeStopRecording(c)

\* the suspended call c is resumed and returns in this step (a process exit
\* also empties stopPc, and returns nothing)
resumed(c) == stopPc[c] = "race" /\ stopPc'[c] = "idle" /\ ~exited'

\* a nodeStopRecording call that took the lock returns in this step
EffectiveStopReturns ==
    \/ \E c \in StopCalls : resumed(c)
    \/ ~isStopping /\ currentTracePath = NoFolder /\ \E c \in StopCalls : nodeStopRecording(c)

\* the running stop ends in this step
StopCycleEnds == ~noStopRunning /\ noStopRunning' /\ ~exited'

ReentrantStopChangesNothing ==
    ReentrantStop =>
        /\ stopRet' = Null
        /\ UNCHANGED <<globalIsRecording, currentTracePath, isStopping, stopPc,
                       loggerVars, diskVars>>

\* C1 (as amended): a nodeStopRecording call that arrives while another holds the
\* lock returns null at once and changes no recording flag, trace path, Logger
\* field or file; over all the calls of one stop logger.endSession is called
\* exactly once, and the trace summarization and the raw-trace deletion happen at
\* most once each.
StopAtMostOnce ==
    [][ /\ ReentrantStopChangesNothing
        /\ StopCycleEnds => (stopEnd' = 1 /\ stopEtl' <= 1 /\ stopUnlink' <= 1) ]_vars

\* C1 witness: a stop that was re-entered has returned the folder after one
\* summarization, one deletion and one endSession
StopReentryWitness ==
    /\ noStopRunning /\ stopArrived = 2
    /\ stopEtl = 1 /\ stopUnlink = 1 /\ stopEnd = 1
    /\ stopRet \in Folders

\* C1 as stated: over a stop and its re-entrant call the summarization, the
\* raw-trace deletion and endSession each happen exactly once
StopExactlyOnce ==
    [][ /\ ReentrantStopChangesNothing
        /\ (StopCycleEnds /\ stopArrived' = 2) =>
               (stopEnd' = 1 /\ stopEtl' = 1 /\ stopUnlink' = 1) ]_vars

\* C2 as stated: once a stop has cleared globalIsRecording, the only event that
\* is appended to the timeline before the flush is the PERFORMANCE_SUMMARY
RacingEventsAreLost ==
    [][ (isStopping /\ ~globalIsRecording /\ Len(timeline') > Len(timeline)) =>
            (appendedOne(timeline, timeline')
             /\ lastEvent(timeline').type = "PERFORMANCE_SUMMARY") ]_vars

\* C3: every nodeStopRecording call that took the lock calls logger.endSession
\* before it returns, however the tracing step ended
FlushIsUnconditional ==
    [][ /\ \A c \in StopCalls :
             resumed(c) => stopEnd' = bump(stopEnd)
        /\ (~isStopping /\ currentTracePath = NoFolder
            /\ \E c \in StopCalls : nodeStopRecording(c)) => stopEnd' >= 1 ]_vars

\* C3 witness: the summarizer ran and threw (no deletion followed), and the stop
\* has still called endSession and written the timeline
FlushAfterFailedTracing ==
    /\ noStopRunning /\ stopEtl = 1 /\ stopUnlink = 0 /\ stopEnd = 1
    /\ stopWrote /\ rawTraces # {}

\* C4: a stop suspended at the trace race completes (unless the process exits
\* first); while the process lives isStopping is cleared only in a step that
\* calls endSession, and it is false whenever a call that took the lock has
\* returned
BoundedWaitAndLockRelease ==
    /\ \A c \in StopCalls : (stopPc[c] = "race") ~> (stopPc[c] = "idle" \/ exited)
    /\ [][ /\ (isStopping /\ ~isStopping' /\ ~exited') => stopEnd' = bump(stopEnd)
           /\ EffectiveStopReturns => ~isStopping' ]_vars

\* C4 witness: a stop that was suspended at the race (it was re-entered) has
\* completed without any summarization and released the lock
StopCompletedWithoutTrace ==
    /\ noStopRunning /\ stopArrived = 2 /\ stopEtl = 0 /\ stopEnd = 1
    /\ ~isStopping

\* C5 as stated: a call that took the lock returns the folder when a session was
\* active and timeline.json was written, and null otherwise; with no active
\* session it writes no file
StopResult ==
    [][ EffectiveStopReturns =>
          /\ stopRet' = (IF isActive /\ stopWrote' THEN sessionFolder ELSE Null)
          /\ ~isActive => (~stopWrote' /\ lastTimeline' = lastTimeline) ]_vars

EventFields == {"timestamp", "type", "data"}

\* C6: the buffer changes only by one event appended at its end, or by being
\* emptied (at initSession, at the end of the session, at process exit); a
\* timeline.json that is written holds the buffer as it stood, extended at most
\* by the PERFORMANCE_SUMMARY that the same stop appended, so it holds exactly
\* the events accepted since initSession in arrival order, each with the fields
\* timestamp, type and data
TimelineFileHoldsArrivedEvents ==
    [][ /\ (lastTimeline' # lastTimeline /\ lastTimeline'.folder # NoFolder) =>
              /\ \/ lastTimeline'.content = timeline
                 \/ /\ appendedOne(timeline, lastTimeline'.content)
                    /\ lastEvent(lastTimeline'.content).type = "PERFORMANCE_SUMMARY"
              /\ \A i \in 1..Len(lastTimeline'.content) :
                    DOMAIN lastTimeline'.content[i] = EventFields
        /\ timeline' # timeline =>
              \/ appendedOne(timeline, timeline')
              \/ timeline' = <<>> ]_vars

\* C6 witness: a written timeline.json holding at least two events, in the order
\* a click and then a network response arrived
FlushedTwoEvents ==
    /\ lastTimeline.folder # NoFolder
    /\ Len(lastTimeline.content) >= 2
    /\ lastTimeline.content[1].type = "USER_INTERACTION"
    /\ lastTimeline.content[2].type = "NETWORK_REQUEST"

RECURSIVE isRedacted(_)
\* no sensitive key of val, at any depth, carries a value other than null or the marker
isRedacted(val) ==
    IF val.t = "object"
    THEN \A i \in 1..Len(val.v) :
            /\ isSensitive(val.v[i].k) => (val.v[i].v.t = "null" \/ val.v[i].v = REDACTED)
            /\ isRedacted(val.v[i].v)
    ELSE IF val.t = "array" THEN \A i \in 1..Len(val.v) : isRedacted(val.v[i])
    ELSE TRUE

\* C7: every event of the timeline buffer and of the written timeline.json is
\* redacted at every depth
TimelineIsRedacted ==
    /\ \A i \in 1..Len(timeline) : isRedacted(timeline[i].data)
    /\ \A i \in 1..Len(lastTimeline.content) : isRedacted(lastTimeline.content[i].data)

\* C7 witness: the written timeline holds a click whose selector object had a
\* password, masked, and an apiKey inside an array of it, masked
RedactedClickWritten ==
    \E i \in 1..Len(lastTimeline.content) :
        LET data == lastTimeline.content[i].data
        IN  /\ lastTimeline.content[i].type = "USER_INTERACTION"
            /\ getKey(getKey(data, <<"s", "e", "l", "e", "c", "t", "o", "r">>), <<"p", "a", "s", "s", "w", "o", "r", "d">>) = REDACTED
            /\ getKey(getKey(getKey(data, <<"s", "e", "l", "e", "c", "t", "o", "r">>), <<"i", "t", "e", "m", "s">>).v[1], <<"a", "p", "i", "K", "e", "y">>) = REDACTED

RECURSIVE covered(_, _, _)
\* out masks the sensitive keys of in at every depth; strict also asks the
\* marker where the value is null
covered(in, out, strict) ==
    IF in.t = "object"
    THEN /\ out.t = "object" /\ Len(out.v) = Len(in.v)
         /\ \A i \in 1..Len(in.v) :
               /\ out.v[i].k = in.v[i].k
               /\ IF isSensitive(in.v[i].k)
                  THEN IF in.v[i].v.t = "null" /\ ~strict
                       THEN out.v[i].v = JNull
                       ELSE out.v[i].v = REDACTED
                  ELSE covered(in.v[i].v, out.v[i].v, strict)
    ELSE IF in.t = "array"
    THEN /\ out.t = "array" /\ Len(out.v) = Len(in.v)
         /\ \A i \in 1..Len(in.v) : covered(in.v[i], out.v[i], strict)
    ELSE TRUE

\* C8 (as amended): in sanitize's output every key whose lower-cased form
\* contains a sensitive substring, at any depth inside records and arrays,
\* carries the marker when its value was not null, and null when it was null
RedactionCoverage == sanPc # "input" => covered(sanIn, sanOut, FALSE)

\* C8 witness: an object inside an array inside an object had a non-null
\* sensitive value, and sanitize has run
NestedSecretSanitized ==
    /\ sanPc = "once"
    /\ sanIn = JObj(<<Entry(<<"u", "s", "e", "r">>, JArr(<<JObj(<<Entry(<<"a", "p", "i", "K", "e", "y">>, JStr(<<"a", "b", "c">>))>>)>>))>>)
    /\ sanOut = JObj(<<Entry(<<"u", "s", "e", "r">>, JArr(<<JObj(<<Entry(<<"a", "p", "i", "K", "e", "y">>, REDACTED)>>)>>))>>)

\* C8 as stated: every sensitive key carries the marker in the output
RedactionCoverageStrict == sanPc # "input" => covered(sanIn, sanOut, TRUE)

\* the response whose url is url
responseOf(url) == Responses[CHOOSE i \in 1..Len(Responses) : Responses[i].url = url]

\* C9 as stated: the responseSnippet of a NETWORK_REQUEST event shows the value
\* of every sensitive key of the JSON body as the marker
SnippetIsRedacted ==
    \A i \in 1..Len(timeline) :
        (timeline[i].type = "NETWORK_REQUEST" /\ hasKey(timeline[i].data, <<"r", "e", "s", "p", "o", "n", "s", "e", "S", "n", "i", "p", "p", "e", "t">>)) =>
            LET body == responseOf(getKey(timeline[i].data, <<"u", "r", "l">>).v).body
                snippet == getKey(timeline[i].data, <<"r", "e", "s", "p", "o", "n", "s", "e", "S", "n", "i", "p", "p", "e", "t">>).v
            IN  \A j \in 1..Len(body.v) :
                    (isSensitive(body.v[j].k) /\ body.v[j].v.t = "string") =>
                        includes(snippet, quote(body.v[j].k) \o <<":">> \o quote(REDACTED.v))

\* C10: sanitize applied to its own output returns that output
SanitizeIdempotent == sanPc = "twice" => sanTwice = sanOut

\* C10 witness: sanitize changed the input, and has been applied twice
SanitizedTwice == sanPc = "twice" /\ sanOut # sanIn /\ sanTwice = sanOut

\* an ingestion callback runs in this step
IngestionCallback ==
    \/ nodeLogClick \/ onConsole \/ onPageError \/ nodeSaveSnapshot
    \/ \E h \in Handlers : onResponse(h) \/ afterToast(h) \/ afterJson(h)

\* C11: while the logger has no active session, logEvent returns the buffer as
\* it is, saveSnapshot returns null without throwing, writing a file or adding
\* an event, and no ingestion callback (click, console line, page error,
\* snapshot, network response) changes a Logger field or a file
MisuseIsIgnored ==
    [][ ~isActive =>
          /\ \A clickData \in ClickInputs :
                logEvent(timeline, "USER_INTERACTION", clickEntry(clickData)) = timeline
          /\ \A trigger \in snapRequests \cup {NavigationTrigger}, writeOk \in BOOLEAN :
                saveSnapshot(timeline, trigger, writeOk)
                    = [ret |-> JNull, thrown |-> FALSE, timeline |-> timeline,
                       files |-> snapshotFiles]
          /\ IngestionCallback => UNCHANGED <<loggerVars, diskVars>> ]_vars

\* C11 witness: the callbacks pass the recording check while the logger has no
\* session (a stop ended the session that a start had just opened), and a failed
\* response has left a snapshot request to be served
StrayCallbackOnEndedSession ==
    /\ globalIsRecording /\ ~isActive /\ sessionFolder = NoFolder
    /\ timeline = <<>> /\ lastTimeline.folder # NoFolder /\ lastTimeline.content = <<>>
    /\ snapRequests # {}

\* the session held by the logger is over after this step
SessionEnds == isActive /\ (~isActive' \/ nodeStartRecording \/ exited')

\* C12 as stated: timeline.json is written into every session's folder exactly
\* once, at the end of the session: a session that ends has its timeline.json
\* written by then (a disconnect while recording attempts the write, and is
\* left out here because that write can fail), and a session that goes on has
\* none yet
OneTimelinePerSession ==
    [][ /\ (SessionEnds /\ ~(exited' /\ globalIsRecording)) =>
               lastTimeline'.folder = sessionFolder
        /\ (isActive' /\ ~nodeStartRecording) => lastTimeline'.folder # sessionFolder' ]_vars

\* the path of a URL: what comes before its query string and its fragment
pathname(url) ==
    LET q == firstIndexOf(url, "?")
        f == firstIndexOf(url, "#")
    IN  SubSeq(url, 1, (IF q < f THEN q ELSE f) - 1)

\* the extension of the resource a URL names, in lower case
extensionOf(url) == toLowerCase(extname(pathname(url)))

matchesBlocklist(url) ==
    \E i \in 1..Len(URL_BLOCKLIST) : includes(toLowerCase(url), URL_BLOCKLIST[i])

\* C13 as stated: a response is dropped exactly when its URL contains a
\* blocklisted substring, or its resource type is image, font, media or
\* stylesheet, or its extension is in the ignored set, or it is a script with
\* a status below 400
NoiseFilterDecision ==
    fnPc = "done" =>
        (fnOut.v <=>
            \/ matchesBlocklist(fnIn.url)
            \/ fnIn.resourceType \in {"image", "font", "media", "stylesheet"}
            \/ extensionOf(fnIn.url) \in IGNORED_EXTENSIONS
            \/ (fnIn.resourceType = "script" /\ fnIn.status < 400))

\* the text of a response body: a string as it is, any other value serialised
bodyText(val) == IF val.t = "string" THEN val.v ELSE stringify(val)

endsWith(s, suffix) ==
    Len(s) >= Len(suffix) /\ SubSeq(s, Len(s) - Len(suffix) + 1, Len(s)) = suffix

\* C14 as stated: a stored responseSnippet never exceeds 1024 characters; a
\* body of at most 1024 characters is stored unchanged and a longer one is cut
\* and ends with the truncation marker
SnippetWithinLimit ==
    (fnPc = "done" /\ fnOut.t = "string") =>
        /\ Len(fnOut.v) <= 1024
        /\ Len(bodyText(fnIn)) <= 1024 => fnOut.v = bodyText(fnIn)
        /\ Len(bodyText(fnIn)) > 1024 =>
              /\ fnOut.v # bodyText(fnIn)
              /\ endsWith(fnOut.v, <<".", ".", ".", " ", "[", "T", "R", "U", "N", "C", "A", "T", "E", "D", "]">>)

\* the harness call returned a performance summary
summarized ==
    /\ fnPc = "done" /\ fnIn.kind = "json"
    /\ fnOut.outcome = "return" /\ fnOut.value.t = "object" /\ hasKey(fnOut.value, <<"m", "e", "t", "r", "i", "c", "s">>)

\* the events of the trace file given to the harness call
inputEvents ==
    IF fnIn.json.t = "array" THEN fnIn.json.v
    ELSE IF fnIn.json.t = "object" /\ hasKey(fnIn.json, <<"t", "r", "a", "c", "e", "E", "v", "e", "n", "t", "s">>)
            /\ getKey(fnIn.json, <<"t", "r", "a", "c", "e", "E", "v", "e", "n", "t", "s">>).t = "array"
    THEN getKey(fnIn.json, <<"t", "r", "a", "c", "e", "E", "v", "e", "n", "t", "s">>).v
    ELSE <<>>

metric(key) == getKey(getKey(fnOut.value, <<"m", "e", "t", "r", "i", "c", "s">>), key)

\* the event has that name and a duration
named(event, names) ==
    /\ event.t = "object" /\ hasKey(event, <<"n", "a", "m", "e">>) /\ hasKey(event, <<"d", "u", "r">>)
    /\ getKey(event, <<"n", "a", "m", "e">>).t = "string" /\ getKey(event, <<"n", "a", "m", "e">>).v \in names

\* h hundredths of a millisecond is d tenths of a microsecond rounded to 2 decimals
roundsTo(h, d) == 100 * h - 50 <= d /\ d <= 100 * h + 50

\* positions of the RunTask events longer than 50 ms
longRunTasks ==
    { i \in 1..Len(inputEvents) :
        named(inputEvents[i], {<<"R", "u", "n", "T", "a", "s", "k">>}) /\ eventDur(inputEvents[i]) > 500000 }

RECURSIVE excessOver50(_)
\* sum of (duration - 50 ms) over the events at the positions in S
excessOver50(S) ==
    IF S = {} THEN 0
    ELSE LET i == CHOOSE j \in S : TRUE
         IN  (eventDur(inputEvents[i]) - 500000) + excessOver50(S \ {i})

\* C15: long_tasks_count is the number of RunTask events strictly longer than
\* 50 ms and total_blocking_time is the sum of their durations in excess of
\* 50 ms, rounded to 2 decimals; one RunTask of 120 ms gives 1 and 70.00, and
\* a RunTask of exactly 50 ms contributes nothing
BlockingTimeArithmetic ==
    summarized =>
        /\ metric(<<"l", "o", "n", "g", "_", "t", "a", "s", "k", "s", "_", "c", "o", "u", "n", "t">>) = JNum(Cardinality(longRunTasks))
        /\ metric(<<"t", "o", "t", "a", "l", "_", "b", "l", "o", "c", "k", "i", "n", "g", "_", "t", "i", "m", "e">>).e = 2
        /\ roundsTo(metric(<<"t", "o", "t", "a", "l", "_", "b", "l", "o", "c", "k", "i", "n", "g", "_", "t", "i", "m", "e">>).v, excessOver50(longRunTasks))
        /\ inputEvents = <<traceEvent(<<"R", "u", "n", "T", "a", "s", "k">>, JNum(120000))>> =>
              /\ metric(<<"l", "o", "n", "g", "_", "t", "a", "s", "k", "s", "_", "c", "o", "u", "n", "t">>) = JNum(1)
              /\ metric(<<"t", "o", "t", "a", "l", "_", "b", "l", "o", "c", "k", "i", "n", "g", "_", "t", "i", "m", "e">>) = JDec(7000)
        /\ (\A i \in 1..Len(inputEvents) : inputEvents[i] = traceEvent(<<"R", "u", "n", "T", "a", "s", "k">>, JNum(50000))) =>
              /\ metric(<<"l", "o", "n", "g", "_", "t", "a", "s", "k", "s", "_", "c", "o", "u", "n", "t">>) = JNum(0)
              /\ metric(<<"t", "o", "t", "a", "l", "_", "b", "l", "o", "c", "k", "i", "n", "g", "_", "t", "i", "m", "e">>) = JDec(0)

LongAndBorderlineTask ==
    /\ summarized
    /\ inputEvents = << traceEvent(<<"R", "u", "n", "T", "a", "s", "k">>, JNum(50000)), traceEvent(<<"R", "u", "n", "T", "a", "s", "k">>, JNum(120000)) >>
    /\ metric(<<"l", "o", "n", "g", "_", "t", "a", "s", "k", "s", "_", "c", "o", "u", "n", "t">>) = JNum(1)
    /\ metric(<<"t", "o", "t", "a", "l", "_", "b", "l", "o", "c", "k", "i", "n", "g", "_", "t", "i", "m", "e">>) = JDec(7000)

\* positions of the offender candidates: scripting events longer than 10 ms
candidates ==
    { i \in 1..Len(inputEvents) :
        named(inputEvents[i], ScriptingNames) /\ eventDur(inputEvents[i]) > 100000 }

\* the place of candidate i in descending duration, earlier positions first
\* among equal durations
rank(i) ==
    1 + Cardinality({ j \in candidates :
            \/ eventDur(inputEvents[j]) > eventDur(inputEvents[i])
            \/ (eventDur(inputEvents[j]) = eventDur(inputEvents[i]) /\ j < i) })

offenderEntry(event) ==
    formatOffender([name |-> offenderName(event), duration |-> eventDur(event)])

\* C16: offenders has at most 5 entries, the candidates of the largest
\* durations in descending order, equal durations in encounter order
OffenderOrdering ==
    summarized =>
        LET out == metric(<<"o", "f", "f", "e", "n", "d", "e", "r", "s">>).v
        IN  /\ Len(out) <= 5
            /\ Len(out) = (IF Cardinality(candidates) < 5 THEN Cardinality(candidates) ELSE 5)
            /\ \A i \in candidates :
                  rank(i) <= 5 => out[rank(i)] = offenderEntry(inputEvents[i])

\* seven candidates, of 20, 50, 50, 50, 20, 50, 50 ms: the five of 50 ms are
\* listed in encounter order
TiedCandidatesBeyondFive ==
    /\ summarized
    /\ Len(inputEvents) = 7
    /\ \A i \in 1..7 : eventDur(inputEvents[i]) = (IF i \in {1, 5} THEN 200000 ELSE 500000)
    /\ metric(<<"o", "f", "f", "e", "n", "d", "e", "r", "s">>).v =
          << JStr(<<"b", " ", "(", "5", "0", ".", "0", "m", "s", ")">>), JStr(<<"c", " ", "(", "5", "0", ".", "0", "m", "s", ")">>), JStr(<<"d", " ", "(", "5", "0", ".", "0", "m", "s", ")">>),
             JStr(<<"f", " ", "(", "5", "0", ".", "0", "m", "s", ")">>), JStr(<<"g", " ", "(", "5", "0", ".", "0", "m", "s", ")">>) >>

RECURSIVE totalDur(_)
\* sum of the durations of the events at the positions in S
totalDur(S) ==
    IF S = {} THEN 0
    ELSE LET i == CHOOSE j \in S : TRUE
         IN  eventDur(inputEvents[i]) + totalDur(S \ {i})

category(key) == getKey(metric(<<"c", "a", "t", "e", "g", "o", "r", "i", "e", "s">>), key)

\* positions of the events of a bucket
inBucket(names) == { i \in 1..Len(inputEvents) : named(inputEvents[i], names) }

\* C17: scripting, rendering and painting are each the sum of the durations
\* of the events named in that bucket, rounded to 2 decimals (12.3456 ms
\* becomes 12.35); events without a duration or of other names count nowhere
CategoryTotals ==
    summarized =>
        /\ \A key \in {<<"s", "c", "r", "i", "p", "t", "i", "n", "g">>, <<"r", "e", "n", "d", "e", "r", "i", "n", "g">>, <<"p", "a", "i", "n", "t", "i", "n", "g">>} : category(key).e = 2
        /\ roundsTo(category(<<"s", "c", "r", "i", "p", "t", "i", "n", "g">>).v, totalDur(inBucket(ScriptingNames)))
        /\ roundsTo(category(<<"r", "e", "n", "d", "e", "r", "i", "n", "g">>).v, totalDur(inBucket(RenderingNames)))
        /\ roundsTo(category(<<"p", "a", "i", "n", "t", "i", "n", "g">>).v, totalDur(inBucket(PaintingNames)))
        /\ inputEvents = <<callEvent(<<"f">>, JTenths(123456))>> =>
              category(<<"s", "c", "r", "i", "p", "t", "i", "n", "g">>) = JDec(1235)
        /\ (\A i \in 1..Len(inputEvents) :
                ~named(inputEvents[i], ScriptingNames \cup RenderingNames \cup PaintingNames)) =>
              \A key \in {<<"s", "c", "r", "i", "p", "t", "i", "n", "g">>, <<"r", "e", "n", "d", "e", "r", "i", "n", "g">>, <<"p", "a", "i", "n", "t", "i", "n", "g">>} : category(key) = JDec(0)

\* 12.3456 ms of scripting next to a Paint event that has no duration
ScriptingRoundedUp ==
    /\ summarized
    /\ inputEvents = << callEvent(<<"f">>, JTenths(123456)), JObj(<< Entry(<<"n", "a", "m", "e">>, JStr(<<"P", "a", "i", "n", "t">>)) >>) >>
    /\ category(<<"s", "c", "r", "i", "p", "t", "i", "n", "g">>) = JDec(1235)
    /\ category(<<"p", "a", "i", "n", "t", "i", "n", "g">>) = JDec(0)

errorResult == JObj(<< Entry(<<"e", "r", "r", "o", "r">>, JStr(<<"T", "r", "a", "c", "e", " ", "f", "i", "l", "e", " ", "c", "o", "r", "r", "u", "p", "t", "e", "d", " ", "o", "r", " ", "u", "n", "r", "e", "a", "d", "a", "b", "l", "e">>)) >>)

\* C18 as stated: for a missing file and for an unreadable or unparsable file
\* process returns the error result {error: ...} instead of raising
BadFileGivesErrorResult ==
    (fnPc = "done" /\ fnIn.kind \in {"absent", "unparsable"}) =>
        /\ fnOut.outcome = "return"
        /\ fnOut.value.t = "object" /\ hasKey(fnOut.value, <<"e", "r", "r", "o", "r">>)

\* C18 amended: process never throws on a bad input file: for a missing file
\* it returns null, and for an unreadable or unparsable file the error result
BadFileNeverThrows ==
    (fnPc = "done" /\ fnIn.kind \in {"absent", "unparsable"}) =>
        /\ fnOut.outcome = "return"
        /\ fnIn.kind = "absent" => fnOut.value = JNull
        /\ fnIn.kind = "unparsable" => fnOut.value = errorResult

MissingFileProcessed ==
    fnPc = "done" /\ fnIn = NoTraceFile /\ fnOut = Returned(JNull)

\* C19 as stated: an unparsable raw trace leaves no PERFORMANCE_SUMMARY entry
\* in timeline.json: the PERFORMANCE_SUMMARY entries of a written timeline.json
\* are summaries, none of them holds the error result of the summarizer
NoErrorSummaryInTimeline ==
    \A i \in 1..Len(lastTimeline.content) :
        lastTimeline.content[i].type = "PERFORMANCE_SUMMARY" =>
            ~hasKey(lastTimeline.content[i].data, <<"e", "r", "r", "o", "r">>)

\* nodeStartRecording runs while a session is recording
reinit == globalIsRecording /\ isActive /\ nodeStartRecording

\* what a re-init does apart from naming the folder: the call is not rejected,
\* the buffered events of the prior session are in no timeline.json, before
\* the call or after it, the buffer is empty and the state is Recording
reinitDiscards ==
    /\ (globalIsRecording /\ isActive /\ ~exited) => ENABLED nodeStartRecording
    /\ reinit =>
          /\ timeline # <<>> => lastTimeline.folder # sessionFolder
          /\ lastTimeline' = NoFile
          /\ timeline' = <<>>
          /\ isActive' /\ globalIsRecording'

\* C20 as stated: a re-init while recording discards the buffered events
\* without persisting them, allocates a new folder, leaves the buffer empty
\* and the state Recording, and is not rejected
ReinitAllocatesNewFolder ==
    [][ reinitDiscards /\ (reinit => sessionFolder' # sessionFolder) ]_vars

\* the SNAPSHOT event names a file written into the current session folder
snapshotWritten(event) ==
    \E f \in snapshotFiles :
        /\ f[1] = sessionFolder
        /\ getKey(event.data, <<"f", "i", "l", "e">>) = JStr(snapshotName(f[2]))

SnapshotNamesUnique ==
    (isActive /\ sessionFolder # NoFolder) =>
        \A trigger \in snapRequests \cup {NavigationTrigger} :
            LET s == saveSnapshot(timeline, trigger, TRUE)
            IN  /\ \A f \in snapshotFiles :
                      f[1] = sessionFolder => s.ret # JStr(snapshotName(f[2]))
                /\ s.files # snapshotFiles

\* event.args.data, when the event carries both
embeddedData(event) ==
    IF hasKey(event, <<"a", "r", "g", "s">>) /\ getKey(event, <<"a", "r", "g", "s">>).t = "object"
       /\ hasKey(getKey(event, <<"a", "r", "g", "s">>), <<"d", "a", "t", "a">>)
    THEN getKey(getKey(event, <<"a", "r", "g", "s">>), <<"d", "a", "t", "a">>)
    ELSE JUndefined

\* function name, else URL, else the generic label; fallback for an event
\* that carries no args.data
labelOf(event, fallback) ==
    LET data == embeddedData(event)
    IN  IF data.t # "object" THEN fallback
        ELSE IF hasKey(data, <<"f", "u", "n", "c", "t", "i", "o", "n", "N", "a", "m", "e">>) THEN getKey(data, <<"f", "u", "n", "c", "t", "i", "o", "n", "N", "a", "m", "e">>).v
        ELSE IF hasKey(data, <<"u", "r", "l">>) THEN getKey(data, <<"u", "r", "l">>).v
        ELSE <<"I", "n", "l", "i", "n", "e", " ", "S", "c", "r", "i", "p", "t">>

\* the offenders are the scripting events longer than 10 ms, each under the
\* name labelOf gives it
candidatesNamed(fallback) ==
    summarized =>
        LET out == metric(<<"o", "f", "f", "e", "n", "d", "e", "r", "s">>).v
        IN  /\ Len(out) = (IF Cardinality(candidates) < 5 THEN Cardinality(candidates) ELSE 5)
            /\ \A i \in candidates :
                  rank(i) <= 5 =>
                     out[rank(i)] =
                        formatOffender([name |-> labelOf(inputEvents[i], fallback),
                                        duration |-> eventDur(inputEvents[i])])

\* C23 as stated: a scripting event is a candidate exactly when it is longer
\* than 10 ms, named by its function name, else its URL, else "Inline Script",
\* also when it carries no args/data
CandidatesNamedInlineScript == candidatesNamed(<<"I", "n", "l", "i", "n", "e", " ", "S", "c", "r", "i", "p", "t">>)

\* C23 amended: the same, except that a candidate that carries no args or no
\* args.data is named "Anonymous"
CandidatesNamedOrAnonymous == candidatesNamed(<<"A", "n", "o", "n", "y", "m", "o", "u", "s">>)

\* C23 witness: a candidate without args listed before one with an empty args.data
AnonymousCandidate ==
    /\ summarized
    /\ Len(inputEvents) = 2
    /\ inputEvents[1] = traceEvent(<<"E", "v", "a", "l", "u", "a", "t", "e", "S", "c", "r", "i", "p", "t">>, JNum(50000))
    /\ inputEvents[2].t = "object" /\ embeddedData(inputEvents[2]) = JObj(<<>>)
    /\ metric(<<"o", "f", "f", "e", "n", "d", "e", "r", "s">>).v = << JStr(<<"A", "n", "o", "n", "y", "m", "o", "u", "s", " ", "(", "5", "0", ".", "0", "m", "s", ")">>), JStr(<<"I", "n", "l", "i", "n", "e", " ", "S", "c", "r", "i", "p", "t", " ", "(", "3", "0", ".", "0", "m", "s", ")">>) >>

\* the summary of an empty event sequence
emptySummary ==
    JObj(<<
      Entry(<<"s", "u", "m", "m", "a", "r", "y", "_", "t", "y", "p", "e">>, JStr(<<"p", "e", "r", "f", "o", "r", "m", "a", "n", "c", "e", "_", "b", "o", "t", "t", "l", "e", "n", "e", "c", "k", "s">>)),
      Entry(<<"m", "e", "t", "r", "i", "c", "s">>, JObj(<<
        Entry(<<"t", "o", "t", "a", "l", "_", "b", "l", "o", "c", "k", "i", "n", "g", "_", "t", "i", "m", "e">>, JDec(0)),
        Entry(<<"l", "o", "n", "g", "_", "t", "a", "s", "k", "s", "_", "c", "o", "u", "n", "t">>, JNum(0)),
        Entry(<<"c", "a", "t", "e", "g", "o", "r", "i", "e", "s">>, JObj(<<
          Entry(<<"s", "c", "r", "i", "p", "t", "i", "n", "g">>, JDec(0)), Entry(<<"r", "e", "n", "d", "e", "r", "i", "n", "g">>, JDec(0)),
          Entry(<<"p", "a", "i", "n", "t", "i", "n", "g">>, JDec(0)) >>)),
        Entry(<<"o", "f", "f", "e", "n", "d", "e", "r", "s">>, JArr(<<>>)) >>)),
      Entry(<<"a", "n", "a", "l", "y", "s", "i", "s", "_", "h", "i", "n", "t">>, JStr(<<"P", "e", "r", "f", "o", "r", "m", "a", "n", "c", "e", " ", "l", "o", "o", "k", "s", " ", "h", "e", "a", "l", "t", "h", "y", ".">>)) >>)

\* a parsed trace that is neither an array nor an object with an array under traceEvents
otherShape(json) ==
    /\ json.t # "array"
    /\ ~(json.t = "object" /\ hasKey(json, <<"t", "r", "a", "c", "e", "E", "v", "e", "n", "t", "s">>)
         /\ getKey(json, <<"t", "r", "a", "c", "e", "E", "v", "e", "n", "t", "s">>).t = "array")

\* C24 as stated: a parsed trace of any other shape (null, number, string,
\* object without traceEvents, object whose traceEvents is no array) is
\* summarized as an empty event sequence, without throwing
OtherShapesAreEmpty ==
    (fnPc = "done" /\ fnIn.kind = "json" /\ otherShape(fnIn.json)) =>
        fnOut = Returned(emptySummary)

\* a console line or a page error reaches the Logger of an active session
consoleLineLogged == isActive /\ (onConsole \/ onPageError)

firstChars(s, n) == IF Len(s) <= n THEN s ELSE SubSeq(s, 1, n)

\* C25: while a session is recording (the Logger is active), every console
\* line is appended to the console dump with its level and whole text, and
\* the timeline gets one CONSOLE_ERROR event with the first 200 characters of
\* the text when the level is error (page errors included) and nothing
\* otherwise; so the CONSOLE_ERROR events never outnumber the error entries
\* of the console dump
ConsoleKeptApart ==
    /\ [](Cardinality({ i \in 1..Len(timeline) : timeline[i].type = "CONSOLE_ERROR" })
            <= Cardinality({ i \in 1..Len(consoleDump) : consoleDump[i].level = "error" }))
    /\ [](\A n \in 199..202 :
            getKey(consoleErrorData(filler(n), NullLocation), <<"m", "e", "s", "s", "a", "g", "e">>)
                = JStr(firstChars(filler(n), 200)))
    /\ [][ consoleLineLogged =>
             /\ appendedOne(consoleDump, consoleDump')
             /\ LET line == lastEvent(consoleDump')
                IN  /\ line.level # "error" => timeline' = timeline
                    /\ line.level = "error" =>
                          /\ appendedOne(timeline, timeline')
                          /\ lastEvent(timeline').type = "CONSOLE_ERROR"
                          /\ getKey(lastEvent(timeline').data, <<"m", "e", "s", "s", "a", "g", "e">>)
                                = JStr(firstChars(line.message, 200)) ]_vars

\* C25 witness: an error line is in the console dump and stands as one
\* CONSOLE_ERROR event on the timeline
ErrorLineOnTimeline ==
    /\ isActive
    /\ Len(consoleDump) = 1 /\ consoleDump[1].level = "error" /\ consoleDump[1].message = <<"b", "o", "o", "m">>
    /\ Len(timeline) = 1 /\ timeline[1].type = "CONSOLE_ERROR"
    /\ getKey(timeline[1].data, <<"m", "e", "s", "s", "a", "g", "e">>) = JStr(<<"b", "o", "o", "m">>)

\* C26 as stated: whenever no nodeStopRecording call is in progress,
\* globalIsRecording equals logger.isActive (the state after a stop whose flush
\* failed, which returned null and left the session active for a retry, is
\* left out here)
RecordingFlagsAgree ==
    (~exited /\ ~isStopping /\ noStopRunning) =>
        /\ globalIsRecording => isActive
        /\ (isActive /\ ~globalIsRecording) => stopRet = Null

\* stop call c is suspended at the trace race and a start has run since it
\* began: globalIsRecording, which the stop had set to false, is true again
startedDuringStop(c) == stopPc[c] = "race" /\ globalIsRecording /\ isActive

\* C27 as stated: when a start has run while a stop was suspended at the
\* trace race, the resumed stop leaves the newly started session alone: the
\* session stays active with its folder and its buffer, and what the stop
\* writes and returns is not the new session's
StartDuringStopIsHarmless ==
    [][ \A c \in StopCalls :
          (startedDuringStop(c) /\ stopResume(c)) =>
             /\ isActive' /\ sessionFolder' = sessionFolder /\ timeline' = timeline
             /\ lastTimeline' = lastTimeline \/ lastTimeline'.content # timeline ]_vars

\* positions of the PERFORMANCE_SUMMARY events of a timeline
summaries(tl) == { i \in 1..Len(tl) : tl[i].type = "PERFORMANCE_SUMMARY" }

\* C28: a written timeline.json holds at most one PERFORMANCE_SUMMARY event,
\* and if it holds one it is the last event
SummaryIsLastAndOnly ==
    lastTimeline.folder # NoFolder =>
        /\ Cardinality(summaries(lastTimeline.content)) <= 1
        /\ summaries(lastTimeline.content) \subseteq {Len(lastTimeline.content)}

\* C29 as stated: when the browser disconnects while the Logger holds an
\* active session with buffered events, in Recording or while a stop is in
\* progress, timeline.json is written with those events before the process
\* exits (in Recording the write is attempted and can fail: that case is
\* left out here)
DisconnectFlushesBuffer ==
    [][ (onDisconnected /\ isActive /\ timeline # <<>>) =>
           \/ lastTimeline'.folder = sessionFolder /\ lastTimeline'.content = timeline
           \/ globalIsRecording ]_vars

\* a stop call that took the lock returns after the timeline.json write of
\* endSession has failed
flushFailed == EffectiveStopReturns /\ isActive /\ ~stopWrote'

\* a stop call on the session that a failed flush left active, with every
\* write of endSession succeeding this time
retrySucceeds ==
    /\ isActive /\ ~globalIsRecording /\ ~isStopping /\ noStopRunning
    /\ \E c \in StopCalls : nodeStopRecording(c)
    /\ stopWrote' /\ (consoleDump # <<>> => lastTimeline'.console)

====
